---- MODULE Spec2Model ----
(***************************************************************************)
(* Verification model of the davis-wx logger core:                         *)
(*   - LinkDriver  (backend/app/protocol/link_driver.py): the reentrant    *)
(*     I/O lock, the retry loops of LOOP/WRD/WWR/RRD/SRD, the STOP..START  *)
(*     brackets, the single-shot SAP/SSP/ARC commands, request_stop;       *)
(*   - Poller      (backend/app/services/poller.py): run() and             *)
(*     _process_reading();                                                 *)
(*   - IPCServer   (backend/app/ipc/server.py): the subscriber set and     *)
(*     broadcast_to_subscribers().                                         *)
(* Python's Optional[T] is modelled as a set with at most one element:     *)
(* {} is None, {x} is the value x.                                         *)
(***************************************************************************)
EXTENDS Integers, Sequences, FiniteSets, TLC

\* ------------------------------------------------------------------------
\* Program constants
\* ------------------------------------------------------------------------
MAX_RETRIES == 2
SOH == 1

\* ------------------------------------------------------------------------
\* Bounds of the model
\* ------------------------------------------------------------------------
\* Iterations of Poller.run, IPC client connections, and client events
\* (subscribe, unsubscribe, stall, resume, connection loss, handler exit)
\* in a run.
MaxTicks == 2
NumClients == 2
MaxSubOps == 4

\* Worker threads that call into the driver: the polling engine's executor
\* call, the archive syncer's executor call, an IPC handler's executor call.
Threads == {"poller", "sync", "ipc"}

NoThread == "none"

\* ------------------------------------------------------------------------
\* Readings, calibration, LOOP packets
\* ------------------------------------------------------------------------
\* CalibrationOffsets held by the driver after read_calibration.
calibration ==
    [inside_temp |-> 5, outside_temp |-> -3, barometer |-> 20, outside_hum |-> 2]

\* Raw readings a LOOP packet can carry (inside_temp, outside_temp,
\* barometer, outside_humidity; {} is a None field).
RawReadings ==
    { [inside_temp |-> {712}, outside_temp |-> {},    barometer |-> {29920},
       outside_humidity |-> {99}],
      [inside_temp |-> {698}, outside_temp |-> {455}, barometer |-> {30010},
       outside_humidity |-> {0}] }

Max2(a, b) == IF a >= b THEN a ELSE b
Min2(a, b) == IF a <= b THEN a ELSE b

\* LinkDriver.apply_calibration
apply_calibration(reading) ==
    [inside_temp      |-> {x + calibration.inside_temp : x \in reading.inside_temp},
     outside_temp     |-> {x + calibration.outside_temp : x \in reading.outside_temp},
     barometer        |-> {x - calibration.barometer : x \in reading.barometer},
     outside_humidity |-> {Max2(1, Min2(100, x + calibration.outside_hum)) :
                              x \in reading.outside_humidity}]

\* What the station can answer to LOOP after the ACK: the number of bytes
\* that arrive relative to 1 + data_size + 2, the first byte, whether the
\* CRC over data || CRC validates, and the reading the data bytes encode.
Packets ==
    [full : BOOLEAN, soh : {SOH, 2}, crc_ok : BOOLEAN, data : RawReadings]

\* parse_loop_packet: length check, SOH check, CRC check, then decode.
parse_loop_packet(pkt) ==
    IF ~pkt.full THEN {}
    ELSE IF pkt.soh # SOH THEN {}
    ELSE IF ~pkt.crc_ok THEN {}
    ELSE {pkt.data}

\* ------------------------------------------------------------------------
\* Driver methods as scripts of wire commands
\* ------------------------------------------------------------------------
\* The wire commands a driver method issues, in order.
Script(op) ==
    CASE op = "poll_loop"             -> <<"LOOP">>
      [] op = "read_rain_yearly"      -> <<"WRD">>
      [] op = "read_station_time"     -> <<"WRD", "WRD">>
      [] op = "write_station_time"    -> <<"STOP", "WWR", "WWR", "START">>
      [] op = "clear_rain_daily"      -> <<"STOP", "WWR", "START">>
      [] op = "clear_rain_yearly"     -> <<"STOP", "WWR", "START">>
      [] op = "read_archive_pointers" -> <<"RRD", "RRD">>
      [] op = "read_archive_period"   -> <<"RRD">>
      [] op = "read_archive"          -> <<"SRD">>
      [] op = "set_archive_period"    -> <<"SAP">>
      [] op = "set_sample_period"     -> <<"SSP">>
      [] op = "force_archive"         -> <<"ARC">>
      [] OTHER                        -> <<>>

OuterLock_Missing(op) == op \in {"read_station_time"}

\* Methods whose body is wrapped in an outer `with self._io_lock:` around
\* the nested calls.
OuterLock(op) ==
    op \in {"read_station_time", "write_station_time", "clear_rain_daily",
            "clear_rain_yearly"}

\* Methods that return as soon as one nested read failed.
EarlyReturn(op) == op \in {"read_station_time", "read_archive_pointers"}

\* Commands sent by a method with its own `with self._io_lock:` and a
\* `for attempt in range(MAX_RETRIES + 1)` loop.
RetryCmds == {"LOOP", "WRD", "WWR", "RRD", "SRD"}

\* Commands whose method takes the lock itself (stop_polling and
\* start_polling do not).
OwnLock(cmd) == cmd \notin {"STOP", "START"}

\* Commands answered by a payload after the ACK.
HasPayload(cmd) == cmd \in {"LOOP", "WRD", "RRD", "SRD"}

\* Failures after which the retry loop tests _stop_requested before it
\* goes on (read_station_memory's short read does a bare `continue`).
PostFailStopCheck(cmd, outcome) == ~(cmd = "WRD" /\ outcome = "short")

\* Driver methods each thread calls.
OpsOf(t) ==
    CASE t = "poller" -> {"poll_loop", "read_rain_yearly"}
      [] t = "sync"   -> {"read_archive_pointers", "read_archive_period",
                          "read_archive"}
      [] OTHER        -> {"read_station_time", "write_station_time",
                          "set_archive_period", "set_sample_period",
                          "force_archive"}

Clients == 1..NumClients

VARIABLES
    lock,            \* LinkDriver._io_lock: [owner, count]
    stop_requested,  \* LinkDriver._stop_requested
    drv,             \* per thread: the driver call it is executing
    ppc,             \* Poller.run: the statement the poller task is at
    running,         \* Poller._running
    timeouts,        \* Poller._timeouts
    tick,            \* number of iterations of Poller.run started
    now,             \* datetime.now(timezone.utc), in clock ticks
    rows,            \* sensor_readings rows committed, in commit order
    subscribers,     \* IPCServer._subscribers
    conn,            \* per client connection: open, stalled, broken, closed
    received,        \* per client: the sensor_update lines written to it
    bc,              \* broadcast_to_subscribers: its frame while it runs
    subops,          \* number of client events handled so far
    cancelled,       \* the poller task was cancelled
    tick0,           \* history: what the current tick started from
    inq,             \* one IPC connection: the lines the client has sent
    hpc,             \* _handle_client: the statement the coroutine is at
    hexc,            \* the exception a handler raised, as str(exc)
    replies,         \* the response lines written to the connection
    nread,           \* number of lines _handle_client has taken
    driver,       \* LoggerDaemon.driver: none, or the LinkDriver's fields
    poller,       \* LoggerDaemon.poller: none, or the Poller's fields
    poller_task,  \* LoggerDaemon.poller_task: none, running, cancelled
    dpc,          \* where the connect / teardown coroutine is suspended
    dthen,        \* what follows the teardown in progress
    result,        \* the result of the last handler call, until it is read
    wire,         \* number of device commands sent to the station
    cl,           \* IPCClient: its connection and the call in progress
    chan,         \* per connection: requests unanswered, replies unread
    returned,     \* the replies send_command returned, per call
    raised,       \* the calls send_command ended with an exception
    mem,          \* station archive memory: the time stamp at each address
    today,        \* datetime.now() of the host: year and time of year
    sync,         \* async_sync_archive: its position and counters
    store,        \* archive_records rows committed
    pending,      \* rows added to the session, not yet committed
    walk,         \* a call of _iter_archive_addresses: arguments, result
    wirelog,      \* one driver call: its sends and flushes, in order
    unread,       \* bytes of a successful read's response not consumed
    rain,         \* the rain-rate fields of the poller and the state file
    crc,          \* a call of crc_validate: its argument and result
    parsed,       \* a call of parse_loop_packet: its argument and result
    life,         \* LoggerDaemon with its handlers, tasks and worker threads
    cal           \* the calibration of a LinkDriver and the calls on it

driverVars == <<lock, stop_requested, drv>>
pollerVars == <<ppc, running, timeouts, tick, now, rows, cancelled, tick0>>
serverVars == <<subscribers, conn, received, bc, subops>>
ipcVars == <<inq, hpc, hexc, replies, nread>>
daemonVars == <<driver, poller, poller_task, dpc, dthen, result, wire>>
clientVars == <<cl, chan, returned, raised>>
archiveVars == <<mem, today, sync, store, pending>>
wireVars == <<wirelog, unread>>
laterVars == <<rain, crc, parsed, life, cal>>
coreVars == <<driverVars, pollerVars, serverVars, ipcVars, daemonVars,
              clientVars, archiveVars, walk>>
vars == <<lock, stop_requested, drv, ppc, running, timeouts, tick, now,
          rows, subscribers, conn, received, bc, subops, cancelled, tick0,
          inq, hpc, hexc, replies, nread,
          driver, poller, poller_task, dpc, dthen, result, wire,
          cl, chan, returned, raised,
          mem, today, sync, store, pending, walk, wirelog, unread,
          rain, crc, parsed, life, cal>>

\* What each part of the program leaves alone.
notDriver == <<pollerVars, serverVars, ipcVars, daemonVars, clientVars,
               archiveVars, walk, wireVars, laterVars>>
notFanout == <<ipcVars, daemonVars, clientVars, archiveVars, walk,
               wireVars, laterVars>>
notIpc == <<driverVars, pollerVars, received, bc, subops, daemonVars,
            clientVars, archiveVars, walk, wireVars, laterVars>>
notDaemon == <<driverVars, pollerVars, serverVars, ipcVars, clientVars,
               archiveVars, walk, wireVars, laterVars>>
notClient == <<driverVars, pollerVars, serverVars, ipcVars, daemonVars,
               archiveVars, walk, wireVars, laterVars>>
notArchive == <<driverVars, pollerVars, serverVars, ipcVars, daemonVars,
                clientVars, walk, wireVars, laterVars>>
notWalk == <<driverVars, pollerVars, serverVars, ipcVars, daemonVars,
             clientVars, archiveVars, wireVars, laterVars>>
notWire == <<pollerVars, serverVars, ipcVars, daemonVars, clientVars,
             archiveVars, walk, laterVars>>
notRain == <<coreVars, wireVars, crc, parsed, life, cal>>
notCrc == <<coreVars, wireVars, rain, parsed, life, cal>>
notPkt == <<coreVars, wireVars, rain, crc, life, cal>>
notLife == <<coreVars, wireVars, rain, crc, parsed, cal>>
notCal == <<coreVars, wireVars, rain, crc, parsed, life>>

IdleCall ==
    [op |-> "none", idx |-> 0, pc |-> "idle", attempt |-> 0,
     nfail |-> 0, bad |-> FALSE, flushes |-> 0, last |-> "none",
     ok |-> TRUE, reading |-> {}, raw |-> {}, midstop |-> FALSE]

Cmd(d) == Script(d.op)[d.idx]

\* A device exchange is in flight from the command send to the end of the
\* ACK wait / payload read.
InFlight(d) == d.pc \in {"ack", "payload"}

CanAcquire_Unchecked(t) == TRUE

\* threading.RLock: free, or already owned by the calling thread.
CanAcquire(t) == lock.owner \in {NoThread, t}

Acquired(t) == [owner |-> t, count |-> lock.count + 1]

Released(n) ==
    IF lock.count - n <= 0 THEN [owner |-> NoThread, count |-> 0]
    ELSE [owner |-> lock.owner, count |-> lock.count - n]

StopSeen_Never(flag) == FALSE

\* `if self._stop_requested:`
StopSeen(flag) == flag

LastAttempt_OneMore(attempt) == attempt >= MAX_RETRIES + 1

\* The last iteration of `for attempt in range(MAX_RETRIES + 1)`
\* (`if attempt < MAX_RETRIES` is its negation).
LastAttempt(attempt) == attempt >= MAX_RETRIES

\* The record of a call after its current nested command finished with
\* result subok: return, or go on with the next command of the script.
AfterSub(d, subok, reading, raw, last) ==
    LET done == d.idx = Len(Script(d.op)) \/ (EarlyReturn(d.op) /\ ~subok)
    IN  [d EXCEPT !.pc = IF done THEN "ret" ELSE "sub",
                  !.idx = IF done THEN d.idx ELSE d.idx + 1,
                  !.attempt = 0,
                  !.nfail = IF Cmd(d) = "LOOP" THEN d.nfail ELSE 0,
                  !.ok = d.ok /\ subok,
                  !.reading = reading,
                  !.raw = raw,
                  !.last = last]

\* Number of `with self._io_lock:` blocks left when the nested command
\* finishes: its own, and the outer one when the method returns.
ReleasesAfterSub(d, subok) ==
    LET done == d.idx = Len(Script(d.op)) \/ (EarlyReturn(d.op) /\ ~subok)
    IN  (IF OwnLock(Cmd(d)) THEN 1 ELSE 0)
        + (IF done /\ OuterLock(d.op) THEN 1 ELSE 0)

FinishSub(t, d, subok, reading, raw, last) ==
    /\ drv' = [drv EXCEPT ![t] = AfterSub(d, subok, reading, raw, last)]
    /\ lock' = Released(ReleasesAfterSub(d, subok))

\* An exception that no handler of the method catches: every `with` block
\* of the call is left and the call ends.
Abort(t) ==
    /\ drv' = [drv EXCEPT ![t] = [drv[t] EXCEPT !.pc = "ret", !.ok = FALSE,
                                                !.last = "exc"]]
    /\ lock' = Released((IF OwnLock(Cmd(drv[t])) THEN 1 ELSE 0)
                        + (IF OuterLock(drv[t].op) THEN 1 ELSE 0))

\* A failed attempt of a retry loop: the stop test of the failure branch,
\* then the next attempt (poll_loop flushes first) or the final None/False.
FailAttempt(t, outcome) ==
    LET d   == drv[t]
        d2  == [d EXCEPT !.nfail = d.nfail + 1,
                         !.bad = d.bad \/ (Cmd(d) = "LOOP" /\
                                           outcome \in {"short", "invalid"})]
    IN  IF PostFailStopCheck(Cmd(d), outcome) /\ StopSeen(stop_requested)
        THEN FinishSub(t, d2, FALSE, {}, {}, "stopped")
        ELSE IF ~LastAttempt(d.attempt)
        THEN /\ drv' = [drv EXCEPT ![t] =
                          IF Cmd(d) = "LOOP"
                          THEN [d2 EXCEPT !.pc = "flush"]
                          ELSE [d2 EXCEPT !.pc = "check",
                                          !.attempt = d.attempt + 1]]
             /\ UNCHANGED lock
        ELSE FinishSub(t, d2, FALSE, {}, {}, "exhausted")

\* ------------------------------------------------------------------------
\* Driver actions (one worker thread t inside a LinkDriver method)
\* ------------------------------------------------------------------------
\* A thread enters a driver method.
Enter(t, op) ==
    [IdleCall EXCEPT !.op = op, !.idx = 1,
                     !.pc = IF OuterLock(op) THEN "outer" ELSE "sub"]

\* The outer `with self._io_lock:` of a bracketed method.
AcquireOuter(t) ==
    /\ drv[t].pc = "outer"
    /\ CanAcquire(t)
    /\ lock' = Acquired(t)
    /\ drv' = [drv EXCEPT ![t].pc = "sub"]
    /\ UNCHANGED stop_requested

\* Entry of the nested method that sends the next command of the script:
\* its own `with self._io_lock:` (reentrant under the outer one).
BeginSub(t) ==
    /\ drv[t].pc = "sub"
    /\ IF OwnLock(Cmd(drv[t]))
       THEN CanAcquire(t) /\ lock' = Acquired(t)
       ELSE UNCHANGED lock
    /\ drv' = [drv EXCEPT ![t] =
                 [drv[t] EXCEPT !.pc = IF Cmd(drv[t]) \in RetryCmds
                                       THEN "check" ELSE "send",
                                !.attempt = 0, !.nfail = 0, !.bad = FALSE,
                                !.flushes = 0]]
    /\ UNCHANGED stop_requested

\* Top of the retry loop: `if self._stop_requested: return None`.
Check(t) ==
    /\ drv[t].pc = "check"
    /\ IF StopSeen(stop_requested)
       THEN FinishSub(t, drv[t], FALSE, {}, {}, "stopped")
       ELSE drv' = [drv EXCEPT ![t].pc = "send"] /\ UNCHANGED lock
    /\ UNCHANGED stop_requested

\* serial.send(cmd): the exchange begins.
Send(t) ==
    /\ drv[t].pc = "send"
    /\ drv' = [drv EXCEPT ![t].pc = "ack"]
    /\ UNCHANGED <<lock, stop_requested>>

\* serial.wait_for_ack(): ACK, no ACK (timeout or another byte), or an
\* I/O exception.
Ack(t) ==
    /\ drv[t].pc = "ack"
    /\ \E outcome \in {"ack", "noack", "exc"} :
         LET d == drv[t] IN
         CASE outcome = "ack" /\ HasPayload(Cmd(d)) ->
                  drv' = [drv EXCEPT ![t].pc = "payload"] /\ UNCHANGED lock
           [] outcome = "ack" /\ ~HasPayload(Cmd(d)) ->
                  FinishSub(t, d, TRUE, {}, {}, "ok")
           [] outcome # "ack" /\ Cmd(d) \in RetryCmds ->
                  FailAttempt(t, outcome)
           [] outcome = "noack" /\ Cmd(d) \notin RetryCmds ->
                  FinishSub(t, d, FALSE, {}, {}, "noack")
           [] OTHER -> Abort(t)
    /\ UNCHANGED stop_requested

\* serial.receive(n) of the payload and its validation.
Payload(t) ==
    /\ drv[t].pc = "payload"
    /\ LET d == drv[t] IN
       \/ /\ Cmd(d) = "LOOP"
          /\ \E pkt \in Packets :
               IF ~pkt.full THEN FailAttempt(t, "short")
               ELSE IF parse_loop_packet(pkt) = {} THEN FailAttempt(t, "invalid")
               ELSE FinishSub(t, d, TRUE,
                              {apply_calibration(r) : r \in parse_loop_packet(pkt)},
                              parse_loop_packet(pkt), "ok")
       \/ /\ Cmd(d) \in {"WRD", "RRD"}
          /\ \E outcome \in {"short", "crcbad", "ok"} :
               IF outcome = "short" THEN FailAttempt(t, "short")
               ELSE FinishSub(t, d, TRUE, {}, {}, "ok")
       \/ /\ Cmd(d) = "SRD"
          /\ \E outcome \in {"short", "crcbad", "ok"} :
               IF outcome = "ok" THEN FinishSub(t, d, TRUE, {}, {}, "ok")
               ELSE FailAttempt(t, outcome)
       \/ FailAttempt(t, "exc")
    /\ UNCHANGED stop_requested

\* poll_loop: `if attempt < MAX_RETRIES: self.serial.flush()`.
Flush(t) ==
    /\ drv[t].pc = "flush"
    /\ drv' = [drv EXCEPT ![t] =
                 [drv[t] EXCEPT !.pc = "check",
                                !.flushes = drv[t].flushes + 1,
                                !.attempt = drv[t].attempt + 1]]
    /\ UNCHANGED <<lock, stop_requested>>

\* LinkDriver.request_stop (midstop records the calls whose exchange was in
\* flight when the flag was set).
RequestStop ==
    /\ ~stop_requested
    /\ stop_requested' = TRUE
    /\ drv' = [t \in Threads |->
                 IF InFlight(drv[t]) THEN [drv[t] EXCEPT !.midstop = TRUE]
                 ELSE drv[t]]
    /\ UNCHANGED lock

\* ------------------------------------------------------------------------
\* Specification of the driver under concurrent callers
\* ------------------------------------------------------------------------
\* A worker thread is handed a driver call by its task.
Call(t) ==
    /\ drv[t].pc = "idle"
    /\ \E op \in OpsOf(t) : drv' = [drv EXCEPT ![t] = Enter(t, op)]
    /\ UNCHANGED <<lock, stop_requested>>

\* The call's result is handed back to the awaiting task.
Return(t) ==
    /\ drv[t].pc = "ret"
    /\ drv' = [drv EXCEPT ![t] = IdleCall]
    /\ UNCHANGED <<lock, stop_requested>>

DriverInit ==
    /\ lock = [owner |-> NoThread, count |-> 0]
    /\ stop_requested = FALSE
    /\ drv = [t \in Threads |-> IdleCall]

IdleBroadcast ==
    [pc |-> "idle", msg |-> [tick |-> 0, ts |-> 0], pending |-> {},
     used |-> 0, dead |-> {}, cur |-> 0, dummies |-> {}, stayed |-> {}]

FanoutInit ==
    /\ ppc = "top"
    /\ running = TRUE
    /\ timeouts = 0
    /\ tick = 0
    /\ now = 0
    /\ rows = <<>>
    /\ subscribers = {}
    /\ conn = [c \in Clients |-> "open"]
    /\ received = [c \in Clients |-> <<>>]
    /\ bc = IdleBroadcast
    /\ subops = 0
    /\ cancelled = FALSE
    /\ tick0 = [rows |-> 0, timeouts |-> 0, retried |-> FALSE, storeok |-> FALSE]

\* No client has connected to the IPC socket yet.
IpcIdle ==
    /\ inq = <<>>
    /\ hpc = "read"
    /\ hexc = ""
    /\ replies = <<>>
    /\ nread = 0

\* The daemon before run() connects: no driver, no poller.
DaemonInit ==
    /\ driver = {}
    /\ poller = {}
    /\ poller_task = "none"
    /\ dpc = "idle"
    /\ dthen = "connect"
    /\ result = {}
    /\ wire = 0

\* Calls of send_command and connections of the client in a run.
MaxCalls == 3

Calls == 1..MaxCalls
Conns == 1..MaxCalls

\* IPCClient.__init__: no reader, no writer, the lock free.
ClientInit ==
    /\ cl = [pc |-> "idle", writer |-> 0, req |-> 0, ncalls |-> 0,
             nconns |-> 0]
    /\ chan = [c \in Conns |-> [todo |-> <<>>, pipe |-> <<>>]]
    /\ returned = {}
    /\ raised = {}

\* Maximum valid SRAM address (0x7F00).
SRAM_MAX_ADDR == 32512

\* Records in the station's archive, time stamps in a year, years the host
\* clock runs through, syncs in a run.
NumRecords == 2
MaxStamp == 2
MaxYear == 1
MaxSyncs == 2

\* Record slots from either end of the ring the pointers are drawn from.
MaxSlot == 2

\* ARCHIVE_RECORD_SIZE, by model code.
ARCHIVE_RECORD_SIZE(m) ==
    CASE m \in {4, 5} -> 32
      [] m = 6 -> 30
      [] OTHER -> 21

RECURSIVE While(_, _, _, _)
\* `while addr < limit: addresses.append(addr); addr += record_size`
While(addr, limit, record_size, addresses) ==
    IF addr < limit
    THEN While(addr + record_size, limit, record_size,
               Append(addresses, addr))
    ELSE addresses

\* _iter_archive_addresses
iter_archive_addresses_nowrap(old_ptr, new_ptr, record_size) ==
    IF old_ptr = new_ptr THEN <<>>
    ELSE While(old_ptr, new_ptr, record_size, <<>>)
iter_archive_addresses(old_ptr, new_ptr, record_size) ==
    IF old_ptr = new_ptr THEN <<>>
    ELSE IF new_ptr > old_ptr
    THEN While(old_ptr, new_ptr, record_size, <<>>)
    ELSE While(0, new_ptr, record_size,
               While(old_ptr, SRAM_MAX_ADDR, record_size, <<>>))

\* The archive of the station the syncer reads: NumRecords records of a
\* basic station from address 0.
ArchivePointers ==
    [old_ptr |-> 0, new_ptr |-> NumRecords * ARCHIVE_RECORD_SIZE(2),
     record_size |-> ARCHIVE_RECORD_SIZE(2)]

ArchiveAddresses ==
    iter_archive_addresses(ArchivePointers.old_ptr, ArchivePointers.new_ptr,
                           ArchivePointers.record_size)

ArchiveAddrSet == {ArchiveAddresses[i] : i \in 1..Len(ArchiveAddresses)}

Stamps == 0..MaxStamp

IdleSync == [pc |-> "idle", todo |-> <<>>, inserted |-> 0, runs |-> 0]

\* No archive sync has run; the store is empty.
ArchiveIdle ==
    /\ mem = [a \in ArchiveAddrSet |-> 0]
    /\ today = [year |-> 0, pos |-> 0]
    /\ sync = IdleSync
    /\ store = {}
    /\ pending = {}

WalkIdle ==
    walk = [pc |-> "args", old_ptr |-> 0, new_ptr |-> 0, record_size |-> 21,
            addresses |-> <<>>]

\* No call has been traced on the wire.
WireIdle ==
    /\ wirelog = <<>>
    /\ unread = 0

\* The daemon has not connected: no poller, no state file.
RainIdle ==
    rain = [obj |-> {}, attached |-> FALSE, task |-> "none", reading |-> {},
            file |-> {}, last |-> {}, fresh |-> TRUE, reports |-> FALSE,
            samples |-> <<>>, clock |-> 0, n |-> 0, connects |-> 0]

CrcIdle ==
    crc = [pc |-> "idle", B |-> <<>>, bit |-> 0, framed |-> <<>>,
           valid |-> FALSE, flipped |-> FALSE]

PktIdle ==
    parsed = [pc |-> "idle", family |-> "basic", seed |-> 1,
              target |-> "none", sentinel |-> 0, raw |-> <<>>, out |-> {}]

\* A handler coroutine that is not running.
IdleHandler == [pc |-> "idle", port |-> "", tmp |-> 0, i |-> 0]

\* LoggerDaemon.__init__, the IPC server started: no driver, no poller, no
\* task, no worker thread.
LifeIdle ==
    life = [driver |-> 0, poller |-> 0, poller_task |-> 0,
            ipc_server |-> "serving", drivers |-> <<>>, tasks |-> <<>>,
            threads |-> {}, h |-> [c \in Clients |-> IdleHandler],
            sd |-> "run", log |-> <<>>, ncmds |-> 0]

\* CalibrationOffsets(): rain_cal = 100 clicks per inch.
DefaultRainCal == 100

\* LinkDriver.__init__ with no call on it, the station cell at its default.
CalIdle ==
    cal = [pc |-> "idle", op |-> "none", i |-> 0, ok |-> TRUE,
           offsets |-> DefaultRainCal, rain_cal |-> DefaultRainCal,
           station |-> DefaultRainCal, lock |-> "none", poll |-> "none",
           n |-> 0]

Init ==
    /\ DriverInit /\ FanoutInit /\ IpcIdle /\ DaemonInit /\ ClientInit
    /\ ArchiveIdle /\ WalkIdle /\ WireIdle /\ RainIdle /\ CrcIdle /\ PktIdle
    /\ LifeIdle /\ CalIdle

\* Concurrent callers of one LinkDriver: the poller's polls, the archive
\* syncer's reads and IPC-triggered device commands, each on a worker
\* thread, and request_stop.
DriverNext ==
    \/ \E t \in Threads : Call(t)
    \/ \E t \in Threads : AcquireOuter(t)
    \/ \E t \in Threads : BeginSub(t)
    \/ \E t \in Threads : Check(t)
    \/ \E t \in Threads : Send(t)
    \/ \E t \in Threads : Ack(t)
    \/ \E t \in Threads : Payload(t)
    \/ \E t \in Threads : Flush(t)
    \/ \E t \in Threads : Return(t)
    \/ RequestStop

SpecDriver ==
    Init /\ [][DriverNext
                /\ UNCHANGED notDriver]_vars

\* ------------------------------------------------------------------------
\* Poller.run and Poller._process_reading
\* ------------------------------------------------------------------------
\* Clock ticks: the inter-poll sleep (poll_interval), and the most that
\* can elapse between the two datetime.now() calls of _process_reading.
PollInterval == 2
MaxDrift == 1

StartOfTick ==
    [rows |-> Len(rows), timeouts |-> timeouts, retried |-> FALSE,
     storeok |-> FALSE]

AfterException_Abort(isRunning) == "exit"

\* Poller.run, `except Exception`: leave the loop only when stopped,
\* otherwise go on to the inter-poll sleep.
AfterException(isRunning) == IF ~isRunning THEN "exit" ELSE "sleep"

\* `while self._running:` and the dispatch of driver.async_poll_loop().
LoopTop ==
    /\ ppc = "top"
    /\ IF ~running
       THEN ppc' = "exit" /\ UNCHANGED <<tick, drv, tick0>>
       ELSE /\ tick < MaxTicks
            /\ tick' = tick + 1
            /\ ppc' = "poll"
            /\ drv' = [drv EXCEPT !["poller"] = Enter("poller", "poll_loop")]
            /\ tick0' = StartOfTick
    /\ UNCHANGED <<lock, stop_requested, running, timeouts, now, rows,
                   cancelled, serverVars>>

\* async_poll_loop() returned: None counts a timeout, a reading enters
\* _process_reading, which first awaits driver.async_read_rain_yearly().
PollReturn ==
    /\ ppc = "poll"
    /\ drv["poller"].pc = "ret"
    /\ IF drv["poller"].reading = {}
       THEN /\ timeouts' = timeouts + 1
            /\ ppc' = "sleep"
            /\ drv' = [drv EXCEPT !["poller"] = IdleCall]
            /\ UNCHANGED tick0
       ELSE /\ ppc' = "yearly"
            /\ drv' = [drv EXCEPT !["poller"] = Enter("poller", "read_rain_yearly")]
            /\ tick0' = [tick0 EXCEPT !.retried = drv["poller"].bad]
            /\ UNCHANGED timeouts
    /\ UNCHANGED <<lock, stop_requested, running, tick, now, rows, cancelled,
                   serverVars>>

\* async_read_rain_yearly() returned (a failure leaves rain_yearly None).
YearlyReturn ==
    /\ ppc = "yearly"
    /\ drv["poller"].pc = "ret"
    /\ ppc' = "store"
    /\ drv' = [drv EXCEPT !["poller"] = IdleCall]
    /\ UNCHANGED <<lock, stop_requested, running, timeouts, tick, now,
                   rows, cancelled, tick0, serverVars>>

\* The store section of _process_reading: _get_pressure_trend, the row
\* with timestamp=datetime.now(), db.commit(), _get_daily_extremes.  Any of
\* the three store calls may raise; the row exists once commit returned.
Store ==
    /\ ppc = "store"
    /\ \E outcome \in {"trend_fail", "commit_fail", "extremes_fail", "ok"} :
         /\ rows' = IF outcome \in {"extremes_fail", "ok"}
                    THEN Append(rows, [tick |-> tick, ts |-> now])
                    ELSE rows
         /\ ppc' = IF outcome = "ok" THEN "broadcast" ELSE "except"
         /\ tick0' = [tick0 EXCEPT !.storeok = (outcome = "ok")]
    /\ UNCHANGED <<driverVars, running, timeouts, tick, now, cancelled,
                   serverVars>>

\* `except Exception` of Poller.run.
Except ==
    /\ ppc = "except"
    /\ ppc' = AfterException(running)
    /\ timeouts' = IF running THEN timeouts + 1 ELSE timeouts
    /\ bc' = IdleBroadcast
    /\ UNCHANGED <<driverVars, running, tick, now, rows, cancelled, tick0,
                   subscribers, conn, received, subops>>

\* `await asyncio.sleep(self.poll_interval)` elapsed.
Sleep ==
    /\ ppc = "sleep"
    /\ ppc' = "top"
    /\ now' = now + PollInterval
    /\ UNCHANGED <<driverVars, running, timeouts, tick, rows, cancelled,
                   tick0, serverVars>>

\* Poller.stop(): clears _running and calls driver.request_stop().
PollerStop ==
    /\ running
    /\ ppc # "exit"
    /\ running' = FALSE
    /\ stop_requested' = TRUE
    /\ drv' = [t \in Threads |->
                 IF InFlight(drv[t]) THEN [drv[t] EXCEPT !.midstop = TRUE]
                 ELSE drv[t]]
    /\ UNCHANGED <<lock, ppc, timeouts, tick, now, rows, cancelled, tick0,
                   serverVars>>

\* poller_task.cancel() after stop(): CancelledError is raised at the await
\* the task is suspended on and ends run().
Cancel ==
    /\ ~running
    /\ \/ ppc \in {"poll", "yearly", "sleep"}
       \/ ppc = "broadcast" /\ bc.pc = "drain"
    /\ ppc' = "exit"
    /\ cancelled' = TRUE
    /\ bc' = IdleBroadcast
    /\ UNCHANGED <<driverVars, running, timeouts, tick, now, rows, tick0,
                   subscribers, conn, received, subops>>

\* ------------------------------------------------------------------------
\* IPCServer: subscriber set and broadcast_to_subscribers
\* ------------------------------------------------------------------------
\* The event loop runs a client handler only while the broadcast coroutine
\* is not running or is suspended in `await writer.drain()`.
LoopFree == bc.pc \in {"idle", "drain"}

\* _reading_to_dict (its own datetime.now() for "timestamp", read dt clock
\* ticks after the row's timestamp was read) and the call of the broadcast
\* callback: `if not self._subscribers: return`, else the
\* iterator of `for writer in self._subscribers` is created.
BroadcastCall ==
    /\ ppc = "broadcast"
    /\ bc.pc = "idle"
    /\ \E dt \in 0..MaxDrift :
         /\ IF subscribers = {}
            THEN ppc' = "sleep" /\ UNCHANGED bc
            ELSE /\ bc' = [pc |-> "next",
                           msg |-> [tick |-> tick, ts |-> now + dt],
                           pending |-> subscribers,
                           used |-> Cardinality(subscribers),
                           dead |-> {}, cur |-> 0,
                           dummies |-> {}, stayed |-> subscribers]
                 /\ UNCHANGED ppc
    /\ UNCHANGED <<driverVars, running, timeouts, tick, now, rows,
                   cancelled, tick0, subscribers, conn, received, subops>>

\* One step of the for loop: the set iterator raises RuntimeError when the
\* set's size differs from the size at its creation, ends when no entry is
\* left (then the dead writers are discarded), otherwise yields a writer
\* that gets writer.write(data).
BroadcastNext ==
    /\ bc.pc = "next"
    /\ IF Cardinality(subscribers) # bc.used
       THEN /\ bc' = [bc EXCEPT !.pc = "raised"]
            /\ ppc' = "except"
            /\ UNCHANGED <<subscribers, received>>
       ELSE IF bc.pending = {}
       THEN /\ subscribers' = subscribers \ bc.dead
            /\ bc' = IdleBroadcast
            /\ ppc' = "sleep"
            /\ UNCHANGED received
       ELSE \E w \in bc.pending :
            /\ bc' = [bc EXCEPT !.pc = "drain", !.cur = w,
                                !.pending = bc.pending \ {w}]
            /\ received' = IF conn[w] \in {"open", "stalled"}
                           THEN [received EXCEPT ![w] = Append(@, bc.msg)]
                           ELSE received
            /\ UNCHANGED <<ppc, subscribers>>
    /\ UNCHANGED <<driverVars, running, timeouts, tick, now, rows,
                   cancelled, tick0, conn, subops>>

\* `await writer.drain()` returns (it waits while the transport has paused
\* writing, i.e. while the peer does not read), or raises
\* ConnectionResetError / BrokenPipeError / OSError on a failed connection
\* (dead.append(writer)).
BroadcastDrain ==
    /\ bc.pc = "drain"
    /\ \/ /\ conn[bc.cur] # "stalled"
          /\ bc' = [bc EXCEPT !.pc = "next"]
       \/ /\ conn[bc.cur] \in {"broken", "closed"}
          /\ bc' = [bc EXCEPT !.pc = "next", !.dead = bc.dead \cup {bc.cur}]
    /\ UNCHANGED <<driverVars, pollerVars, subscribers, conn, received, subops>>

\* _handle_client, CMD_SUBSCRIBE: self._subscribers.add(writer), while the
\* broadcast's iterator may be live.  A writer discarded since the iterator
\* was created goes back into a slot of its own probe sequence, before or
\* after the iterator's position.  Any other writer may take a fresh slot
\* and make the set rebuild its hash table, after which the iterator goes
\* on by slot index over the new table: the entries it still yields are an
\* arbitrary subset of the members.
Subscribe(c) ==
    /\ LoopFree
    /\ conn[c] = "open"
    /\ c \notin subscribers
    /\ subscribers' = subscribers \cup {c}
    /\ IF bc.pc = "drain"
       THEN /\ IF c \in bc.dummies
               THEN \E p \in {bc.pending, bc.pending \cup {c}} :
                       bc' = [bc EXCEPT !.pending = p,
                                        !.dummies = bc.dummies \ {c}]
               ELSE \E p \in SUBSET (subscribers \cup {c}) :
                       bc' = [bc EXCEPT !.pending = p, !.dummies = {}]
       ELSE UNCHANGED bc
    /\ subops < MaxSubOps
    /\ subops' = subops + 1
    /\ UNCHANGED <<driverVars, pollerVars, conn, received>>

\* _handle_client, CMD_UNSUBSCRIBE: self._subscribers.discard(writer).
Unsubscribe(c) ==
    /\ LoopFree
    /\ conn[c] = "open"
    /\ c \in subscribers
    /\ subscribers' = subscribers \ {c}
    /\ bc' = IF bc.pc = "drain" /\ c \in subscribers
             THEN [bc EXCEPT !.pending = bc.pending \ {c},
                             !.dummies = bc.dummies \cup {c},
                             !.stayed = bc.stayed \ {c}]
             ELSE bc
    /\ subops < MaxSubOps
    /\ subops' = subops + 1
    /\ UNCHANGED <<driverVars, pollerVars, conn, received>>

\* A subscribed peer stops reading its connection: once the socket buffers
\* are full the transport's write buffer passes its high-water mark and the
\* transport pauses writing.
Stall(c) ==
    /\ conn[c] = "open"
    /\ c \in subscribers
    /\ conn' = [conn EXCEPT ![c] = "stalled"]
    /\ subops < MaxSubOps
    /\ subops' = subops + 1
    /\ UNCHANGED <<driverVars, pollerVars, subscribers, received, bc>>

\* The peer reads again: the buffer drains and writing resumes.
Resume(c) ==
    /\ conn[c] = "stalled"
    /\ conn' = [conn EXCEPT ![c] = "open"]
    /\ subops < MaxSubOps
    /\ subops' = subops + 1
    /\ UNCHANGED <<driverVars, pollerVars, subscribers, received, bc>>

\* A subscribed peer drops its connection.
ConnFail(c) ==
    /\ conn[c] \in {"open", "stalled"}
    /\ c \in subscribers
    /\ conn' = [conn EXCEPT ![c] = "broken"]
    /\ subops < MaxSubOps
    /\ subops' = subops + 1
    /\ UNCHANGED <<driverVars, pollerVars, subscribers, received, bc>>

\* _handle_client ends on EOF or a connection error: the finally block
\* discards the writer and closes it.
HandlerExit(c) ==
    /\ LoopFree
    /\ conn[c] = "broken"
    /\ conn' = [conn EXCEPT ![c] = "closed"]
    /\ subscribers' = subscribers \ {c}
    /\ bc' = IF bc.pc = "drain" /\ c \in subscribers
             THEN [bc EXCEPT !.pending = bc.pending \ {c},
                             !.dummies = bc.dummies \cup {c},
                             !.stayed = bc.stayed \ {c}]
             ELSE bc
    /\ subops < MaxSubOps
    /\ subops' = subops + 1
    /\ UNCHANGED <<driverVars, pollerVars, received>>

\* The poller's driver calls run on its worker thread.
PollerWorker(A) ==
    A /\ UNCHANGED <<pollerVars, serverVars>>

FanoutNext ==
    \/ LoopTop
    \/ PollerWorker(BeginSub("poller"))
    \/ PollerWorker(Check("poller"))
    \/ PollerWorker(Send("poller"))
    \/ PollerWorker(Ack("poller"))
    \/ PollerWorker(Payload("poller"))
    \/ PollerWorker(Flush("poller"))
    \/ PollReturn
    \/ YearlyReturn
    \/ Store
    \/ Except
    \/ Sleep
    \/ PollerStop
    \/ Cancel
    \/ BroadcastCall
    \/ BroadcastNext
    \/ BroadcastDrain
    \/ \E c \in Clients : Subscribe(c)
    \/ \E c \in Clients : Unsubscribe(c)
    \/ \E c \in Clients : Stall(c)
    \/ \E c \in Clients : Resume(c)
    \/ \E c \in Clients : ConnFail(c)
    \/ \E c \in Clients : HandlerExit(c)

SpecFanout ==
    Init /\ [][FanoutNext /\ UNCHANGED notFanout]_vars

\* ------------------------------------------------------------------------
\* IPCServer._handle_client: one client connection
\* ------------------------------------------------------------------------
\* Lines a client sends in a session.
MaxLines == 3

\* What a client can put on the socket, by what the server makes of it:
\* bytes that are not JSON, a JSON value that is not an object, more bytes
\* than the StreamReader limit with no newline among them, and objects
\* whose cmd is subscribe, unsubscribe, an unregistered name, a
\* registered command or missing.
Lines == {"garbage", "list", "toolong", "subscribe", "unsubscribe",
          "bogus", "status", "nocmd"}

SeqsUpTo(S, n) == UNION {[1..k -> S] : k \in 0..n}

\* StreamReader.readline: a line longer than the limit raises ValueError.
readline(line) ==
    IF line = "toolong" THEN [raised |-> TRUE, line |-> ""]
    ELSE [raised |-> FALSE, line |-> line]

\* json.loads(line.decode().strip()): raises on bytes that are not JSON,
\* returns whatever JSON value the line holds otherwise.
decode_message(line) ==
    IF line = "garbage" THEN [raised |-> TRUE, type |-> "", cmd |-> ""]
    ELSE IF line = "list" THEN [raised |-> FALSE, type |-> "list", cmd |-> ""]
    ELSE IF line = "nocmd" THEN [raised |-> FALSE, type |-> "dict", cmd |-> ""]
    ELSE [raised |-> FALSE, type |-> "dict", cmd |-> line]

\* self._handlers: the commands logger_main registers.
Registered(cmd) == cmd = "status"

\* str(exc) of what a handler can raise.
HandlerErrors == {"Not connected", "database is locked"}

\* `except Exception as exc` around `await handler(msg)`.
HandlerErrorCaught_Not(e) == FALSE
HandlerErrorCaught(e) == e \in HandlerErrors

\* The connection this section follows.
IpcConn == CHOOSE c \in Clients : TRUE

Reply(ok, error) == [req |-> nread, ok |-> ok, error |-> error]
ReplyTo(n, ok, error) == [req |-> n, ok |-> ok, error |-> error]

\* The finally block: discard the writer, close it.
HandlerFinally ==
    /\ hpc' = "closed"
    /\ subscribers' = subscribers \ {IpcConn}
    /\ conn' = [conn EXCEPT ![IpcConn] = "closed"]

\* One turn of the while loop up to its next suspension: readline, decode,
\* dispatch on cmd.
ReadLine ==
    /\ hpc = "read"
    /\ inq # <<>>
    /\ inq' = Tail(inq)
    /\ nread' = nread + 1
    /\ LET rl  == readline(Head(inq))
           msg == decode_message(rl.line)
           n   == nread + 1
       IN  IF rl.raised
           THEN HandlerFinally /\ UNCHANGED replies
           ELSE IF msg.raised
           THEN /\ replies' = Append(replies, ReplyTo(n, FALSE, "Invalid JSON"))
                /\ UNCHANGED <<hpc, subscribers, conn>>
           ELSE IF msg.type # "dict"
           THEN HandlerFinally /\ UNCHANGED replies
           ELSE IF msg.cmd = "subscribe"
           THEN /\ subscribers' = subscribers \cup {IpcConn}
                /\ replies' = Append(replies, ReplyTo(n, TRUE, ""))
                /\ UNCHANGED <<hpc, conn>>
           ELSE IF msg.cmd = "unsubscribe"
           THEN /\ subscribers' = subscribers \ {IpcConn}
                /\ replies' = Append(replies, ReplyTo(n, TRUE, ""))
                /\ UNCHANGED <<hpc, conn>>
           ELSE IF ~Registered(msg.cmd)
           THEN /\ replies' = Append(replies, ReplyTo(n, FALSE, "Unknown command"))
                /\ UNCHANGED <<hpc, subscribers, conn>>
           ELSE /\ hpc' = "handler"
                /\ UNCHANGED <<replies, subscribers, conn>>
    /\ UNCHANGED hexc

\* readline returned b"": the client closed its end.
ReadEof ==
    /\ hpc = "read"
    /\ inq = <<>>
    /\ HandlerFinally
    /\ UNCHANGED <<inq, hexc, replies, nread>>

\* `result = await handler(msg)` returned; the reply is sent.
HandlerReturn ==
    /\ hpc = "handler"
    /\ replies' = Append(replies, Reply(TRUE, ""))
    /\ hpc' = "read"
    /\ UNCHANGED <<inq, hexc, nread, subscribers, conn>>

\* `await handler(msg)` raised.
HandlerRaise ==
    /\ hpc = "handler"
    /\ \E e \in HandlerErrors : hexc' = e
    /\ hpc' = "caught"
    /\ UNCHANGED <<inq, replies, nread, subscribers, conn>>

\* The except clause logs and replies {ok: false, error: str(exc)}; an
\* exception it does not catch leaves through the finally block.
HandlerCaught ==
    /\ hpc = "caught"
    /\ IF HandlerErrorCaught(hexc)
       THEN /\ replies' = Append(replies, Reply(FALSE, hexc))
            /\ hpc' = "read"
            /\ UNCHANGED <<subscribers, conn>>
       ELSE HandlerFinally /\ UNCHANGED replies
    /\ UNCHANGED <<inq, hexc, nread>>

IpcInit ==
    /\ inq \in SeqsUpTo(Lines, MaxLines)
    /\ hpc = "read"
    /\ hexc = ""
    /\ replies = <<>>
    /\ nread = 0

IpcNext ==
    \/ ReadLine
    \/ ReadEof
    \/ HandlerReturn
    \/ HandlerRaise
    \/ HandlerCaught

\* A client has connected and sends its lines.
InitIpc ==
    /\ DriverInit /\ FanoutInit /\ IpcInit /\ DaemonInit /\ ClientInit
    /\ ArchiveIdle /\ WalkIdle /\ WireIdle /\ RainIdle /\ CrcIdle /\ PktIdle
    /\ LifeIdle /\ CalIdle

SpecIpc ==
    /\ InitIpc
    /\ [][IpcNext
          /\ UNCHANGED notIpc]_vars

\* ------------------------------------------------------------------------
\* LoggerDaemon: serial lifecycle, status and the device commands
\* ------------------------------------------------------------------------
\* Device commands that can go on the wire in a run.
MaxSends == 2

\* StationModel: the model codes of appendix.txt address 0x004D.
StationModel ==
    [WIZARD_III |-> 0, WIZARD_II |-> 1, MONITOR |-> 2, PERCEPTION |-> 3,
     GROWEATHER |-> 4, ENERGY |-> 5, HEALTH |-> 6, OLD_LINK |-> 15]

ModelCodes == {StationModel[f] : f \in DOMAIN StationModel}

STATION_NAMES(m) ==
    CASE m = StationModel.WIZARD_III -> "Weather Wizard III"
      [] m = StationModel.WIZARD_II  -> "Weather Wizard II"
      [] m = StationModel.MONITOR    -> "Weather Monitor II"
      [] m = StationModel.PERCEPTION -> "Perception II"
      [] m = StationModel.GROWEATHER -> "GroWeather"
      [] m = StationModel.ENERGY     -> "Energy"
      [] m = StationModel.HEALTH     -> "Health"
      [] m = StationModel.OLD_LINK   -> "Old Link (Monitor/Wizard)"
      [] OTHER                       -> "Unknown"

\* The model nibble the station can answer with.
Nibbles == 0..15

\* detect_station_type: StationModel(model_code), Monitor for a code that
\* is no member of the enumeration.
DetectedModel(nibble) ==
    IF nibble \in ModelCodes THEN nibble ELSE StationModel.MONITOR

DeviceCommands ==
    {"read_station_time", "sync_station_time", "read_config",
     "write_config", "clear_rain_daily", "clear_rain_yearly",
     "force_archive"}

One(S) == CHOOSE x \in S : TRUE

\* LinkDriver(port, baud_rate, timeout) as __init__ leaves it.
NewDriver ==
    [connected |-> FALSE, is_open |-> FALSE, station_model |-> {},
     is_rev_e |-> FALSE]

\* Poller(driver, poll_interval) as __init__ leaves it.
NewPoller ==
    [poll_interval |-> PollInterval, last_poll |-> {}, timeouts |-> 0,
     crc_errors |-> 0]

\* LinkDriver.connected
DriverConnected(d) == d.connected /\ d.is_open

\* JSON values of a document, by type.
JBool(b) == [t |-> "bool", b |-> b, i |-> 0, s |-> ""]
JInt(i) == [t |-> "int", b |-> FALSE, i |-> i, s |-> ""]
JStr(s) == [t |-> "str", b |-> FALSE, i |-> 0, s |-> s]
JNone == [t |-> "none", b |-> FALSE, i |-> 0, s |-> ""]
\* An attribute looked up on None.
AttributeError == [t |-> "raise", b |-> FALSE, i |-> 0, s |-> "AttributeError"]

\* `x if obj else y`: the guard of each field of the status document.
Present_Always(obj) == TRUE
Present(obj) == obj # {}

\* bool(model) of an IntEnum member: false for None and for the value 0.
Truthy(model) == model # {} /\ One(model) # 0

\* Poller.stats
stats(p) ==
    [last_poll |-> IF p.last_poll = {} THEN JNone ELSE JStr("isoformat"),
     crc_errors |-> JInt(p.crc_errors),
     timeouts |-> JInt(p.timeouts),
     uptime_seconds |-> JInt(0)]

NoStats == [k \in {} |-> JNone]

\* LoggerDaemon._h_status: the document it returns.
h_status ==
    LET connected == IF Present(driver)
                     THEN IF driver = {} THEN AttributeError
                          ELSE JBool(DriverConnected(One(driver)))
                     ELSE JBool(FALSE)
        model == IF driver # {} THEN One(driver).station_model ELSE {}
        st == IF Present(poller)
              THEN IF poller = {} THEN [raised |-> AttributeError]
                   ELSE stats(One(poller))
              ELSE NoStats
    IN  [connected |-> connected,
         type_code |-> IF Truthy(model) THEN JInt(One(model)) ELSE JInt(-1),
         type_name |-> IF Truthy(model) THEN JStr(STATION_NAMES(One(model)))
                       ELSE JStr("Not connected"),
         link_revision |->
             IF Present(driver)
             THEN IF driver = {} THEN AttributeError
                  ELSE IF One(driver).is_rev_e THEN JStr("E") ELSE JStr("D")
             ELSE JStr("unknown"),
         poll_interval |->
             IF Present(poller)
             THEN IF poller = {} THEN AttributeError
                  ELSE JInt(One(poller).poll_interval)
             ELSE JInt(0)] @@ st

\* `if not self.driver or not self.driver.connected: raise RuntimeError`
NotConnected_NoDriverOnly(d) == d = {}
NotConnected(d) == d = {} \/ ~DriverConnected(One(d))

\* _teardown_driver after its await: the driver is closed and the
\* driver, poller and task are forgotten (the caller sets driver').
TornDown ==
    /\ poller' = {}
    /\ poller_task' = "none"

\* _connect up to its first await: a fresh driver, then open().
ConnectOpen ==
    \/ /\ driver' = {NewDriver}
       /\ dpc' = "idle"
    \/ /\ driver' = {[NewDriver EXCEPT !.connected = TRUE, !.is_open = TRUE]}
       /\ dpc' = "detect"

\* _h_connect / _h_reconnect, and the auto-connect of run(): tear down
\* what is there, then connect. With a poller task the teardown waits for
\* it after cancelling it.
Connect ==
    /\ dpc = "idle"
    /\ IF poller_task # "none"
       THEN /\ poller_task' = "cancelled"
            /\ dpc' = "teardown"
            /\ dthen' = "connect"
            /\ UNCHANGED <<driver, poller>>
       ELSE /\ TornDown
            /\ ConnectOpen
            /\ UNCHANGED dthen
    /\ UNCHANGED <<result, wire>>

\* shutdown(): tear down, then stop the IPC server.
Shutdown ==
    /\ dpc = "idle"
    /\ IF poller_task # "none"
       THEN /\ poller_task' = "cancelled"
            /\ dpc' = "teardown"
            /\ dthen' = "shutdown"
            /\ UNCHANGED <<driver, poller>>
       ELSE /\ TornDown
            /\ driver' = {}
            /\ dpc' = "stopped"
            /\ UNCHANGED dthen
    /\ UNCHANGED <<result, wire>>

\* The wait for the cancelled poller task is over: close the driver and
\* forget driver, poller and task; then what the caller does next.
TeardownDone ==
    /\ dpc = "teardown"
    /\ TornDown
    /\ IF dthen = "connect"
       THEN ConnectOpen
       ELSE driver' = {} /\ dpc' = "stopped"
    /\ UNCHANGED <<dthen, result, wire>>

\* async_detect_station_type returned or raised ConnectionError.
DetectReturn ==
    /\ dpc = "detect"
    /\ \/ /\ dpc' = "idle"
          /\ UNCHANGED driver
       \/ \E n \in Nibbles :
            /\ driver' = {[One(driver) EXCEPT
                              !.station_model = {DetectedModel(n)}]}
            /\ dpc' = "calib"
    /\ UNCHANGED <<poller, poller_task, dthen, result, wire>>

\* async_read_calibration returned or raised; on return the poller is
\* created and its task started.
CalibReturn ==
    /\ dpc = "calib"
    /\ dpc' = "idle"
    /\ \/ UNCHANGED <<poller, poller_task>>
       \/ /\ poller' = {NewPoller}
          /\ poller_task' = "running"
    /\ UNCHANGED <<driver, dthen, result, wire>>

\* A tick of the poller: _last_poll is set.
Polled ==
    /\ poller # {}
    /\ poller_task = "running"
    /\ poller' = {[One(poller) EXCEPT !.last_poll = {"t"}]}
    /\ UNCHANGED <<driver, poller_task, dpc, dthen, result, wire>>

\* The status command.
StatusCall ==
    /\ dpc # "stopped"
    /\ result = {}
    /\ result' = {[cmd |-> "status", error |-> "", doc |-> h_status]}
    /\ UNCHANGED <<driver, poller, poller_task, dpc, dthen, wire>>

\* A device command: the not-connected guard, then the exchange.
DeviceCall(cmd) ==
    /\ dpc # "stopped"
    /\ result = {}
    /\ IF NotConnected(driver)
       THEN /\ result' = {[cmd |-> cmd, error |-> "Not connected",
                          doc |-> NoStats]}
            /\ UNCHANGED wire
       ELSE /\ wire < MaxSends
            /\ wire' = wire + 1
            /\ result' = {[cmd |-> cmd, error |-> "", doc |-> NoStats]}
    /\ UNCHANGED <<driver, poller, poller_task, dpc, dthen>>

\* The IPC server has written the result to the client.
ReplySent ==
    /\ result # {}
    /\ result' = {}
    /\ UNCHANGED <<driver, poller, poller_task, dpc, dthen, wire>>

DaemonNext ==
    \/ Connect
    \/ Shutdown
    \/ TeardownDone
    \/ DetectReturn
    \/ CalibReturn
    \/ Polled
    \/ StatusCall
    \/ \E cmd \in DeviceCommands : DeviceCall(cmd)
    \/ ReplySent

SpecDaemon ==
    /\ Init
    /\ [][DaemonNext
          /\ UNCHANGED notDaemon]_vars

\* ------------------------------------------------------------------------
\* IPCClient.send_command on the shared connection
\* ------------------------------------------------------------------------
\* What can end the wait for the reply: asyncio.TimeoutError of wait_for,
\* ConnectionError on end of stream, the caller's cancellation.
WaitErrors == {"TimeoutError", "ConnectionError", "CancelledError"}

\* `except Exception`: CancelledError is a BaseException and passes it.
CaughtByExcept_NotTimeout(exc) == exc \notin {"CancelledError", "TimeoutError"}
CaughtByExcept(exc) == exc # "CancelledError"

\* _close_connection
Closed(c) == [c EXCEPT !.writer = 0]

\* send_command up to the wait for the reply: take the lock, connect if
\* there is no live writer, write the request. A refused connection or a
\* failed write ends the call with the error, the connection forgotten.
CallSend ==
    /\ cl.pc = "idle"
    /\ cl.ncalls < MaxCalls
    /\ LET id == cl.ncalls + 1
           fresh == cl.nconns + 1
       IN  \/ /\ cl.writer = 0
              /\ cl' = [cl EXCEPT !.ncalls = id]
              /\ raised' = raised \cup {[call |-> id, exc |-> "OSError"]}
              /\ UNCHANGED chan
           \/ /\ cl.writer = 0
              /\ cl' = [cl EXCEPT !.ncalls = id, !.req = id, !.pc = "wait",
                                  !.writer = fresh, !.nconns = fresh]
              /\ chan' = [chan EXCEPT ![fresh].todo = Append(@, id)]
              /\ UNCHANGED raised
           \/ /\ cl.writer # 0
              /\ cl' = [cl EXCEPT !.ncalls = id, !.req = id, !.pc = "wait"]
              /\ chan' = [chan EXCEPT ![cl.writer].todo = Append(@, id)]
              /\ UNCHANGED raised
           \/ /\ cl.writer # 0
              /\ cl' = Closed([cl EXCEPT !.ncalls = id])
              /\ raised' = raised \cup {[call |-> id, exc |-> "OSError"]}
              /\ UNCHANGED chan
    /\ UNCHANGED returned

\* The daemon answers the oldest request of a connection; the reply waits
\* in that connection's stream, whether or not the client still holds it.
ServerReply(c) ==
    /\ chan[c].todo # <<>>
    /\ chan' = [chan EXCEPT ![c].todo = Tail(@),
                            ![c].pipe = Append(@, Head(chan[c].todo))]
    /\ UNCHANGED <<cl, returned, raised>>

\* readline returned a line: decode it and return it to the caller.
RecvReply ==
    /\ cl.pc = "wait"
    /\ chan[cl.writer].pipe # <<>>
    /\ returned' = returned \cup
           {[call |-> cl.req, reply_to |-> Head(chan[cl.writer].pipe)]}
    /\ chan' = [chan EXCEPT ![cl.writer].pipe = Tail(@)]
    /\ cl' = [cl EXCEPT !.pc = "idle", !.req = 0]
    /\ UNCHANGED raised

\* The wait ended with an exception: the except clause closes the
\* connection for what it catches; the exception goes to the caller.
WaitAborted ==
    /\ cl.pc = "wait"
    /\ \E exc \in WaitErrors :
         /\ raised' = raised \cup {[call |-> cl.req, exc |-> exc]}
         /\ cl' = IF CaughtByExcept(exc)
                  THEN Closed([cl EXCEPT !.pc = "idle", !.req = 0])
                  ELSE [cl EXCEPT !.pc = "idle", !.req = 0]
    /\ UNCHANGED <<chan, returned>>

ClientNext ==
    \/ CallSend
    \/ \E c \in Conns : ServerReply(c)
    \/ RecvReply
    \/ WaitAborted

SpecClient == Init /\ [][ClientNext /\ UNCHANGED notClient]_vars

\* ------------------------------------------------------------------------
\* async_sync_archive and _iter_archive_addresses
\* ------------------------------------------------------------------------
After(a, b) == a.year > b.year \/ (a.year = b.year /\ a.pos > b.pos)

\* _decode_archive_timestamp: the record carries month, day, hour and
\* minute; the year is the host's current year, or the year before when
\* that date would lie in the future.
decode_archive_timestamp(stamp, nowv) ==
    LET dt == [year |-> nowv.year, pos |-> stamp]
    IN  IF After(dt, nowv) THEN [dt EXCEPT !.year = nowv.year - 1] ELSE dt

\* db.query(ArchiveRecordModel).filter_by(archive_address, record_time)
\* .first(): the session does not autoflush, it sees committed rows.
Existing(address, record_time) ==
    \E r \in store : /\ r.archive_address = address
                     /\ r.record_time = record_time

\* The unique constraint uq_archive_addr_time at commit.
CommitAccepted(added) ==
    \A r1 \in added : \A r2 \in added \cup store :
        (/\ r1.archive_address = r2.archive_address
         /\ r1.record_time = r2.record_time) => r1 = r2

\* async_sync_archive up to the loop: pointers, period, address list.
SyncStart ==
    /\ sync.pc = "idle"
    /\ sync.runs < MaxSyncs
    /\ sync' = [pc |-> "walk", todo |-> ArchiveAddresses, inserted |-> 0,
                runs |-> sync.runs + 1]
    /\ UNCHANGED <<mem, today, store, pending>>

\* One turn of the loop: read the record, parse it, skip it when its pair
\* is in the store, add it otherwise; commit every 100 inserts.
SyncRecord ==
    /\ sync.pc = "walk"
    /\ sync.todo # <<>>
    /\ LET addr == Head(sync.todo)
           ts == decode_archive_timestamp(mem[addr], today)
           row == [id |-> Cardinality(store \cup pending) + 1,
                   archive_address |-> addr, record_time |-> ts]
       IN  \/ /\ sync' = [sync EXCEPT !.todo = Tail(@)]
              /\ UNCHANGED <<store, pending>>
           \/ /\ Existing(addr, ts)
              /\ sync' = [sync EXCEPT !.todo = Tail(@)]
              /\ UNCHANGED <<store, pending>>
           \/ /\ ~Existing(addr, ts)
              /\ sync' = [sync EXCEPT !.todo = Tail(@),
                                      !.inserted = @ + 1]
              /\ IF (sync.inserted + 1) % 100 = 0
                 THEN /\ store' = store \cup pending \cup {row}
                      /\ pending' = {}
                 ELSE /\ pending' = pending \cup {row}
                      /\ UNCHANGED store
    /\ UNCHANGED <<mem, today>>

\* The loop is over: commit, or roll back when the store refuses.
SyncEnd ==
    /\ sync.pc = "walk"
    /\ sync.todo = <<>>
    /\ store' = IF CommitAccepted(pending) THEN store \cup pending ELSE store
    /\ pending' = {}
    /\ sync' = [sync EXCEPT !.pc = "idle"]
    /\ UNCHANGED <<mem, today>>

\* The host's clock advances.
ClockTick ==
    /\ \/ /\ today.pos < MaxStamp
          /\ today' = [today EXCEPT !.pos = @ + 1]
       \/ /\ today.pos = MaxStamp
          /\ today.year < MaxYear
          /\ today' = [year |-> today.year + 1, pos |-> 0]
    /\ UNCHANGED <<mem, sync, store, pending>>

ArchiveInit ==
    /\ mem \in [ArchiveAddrSet -> Stamps]
    /\ today = [year |-> 0, pos |-> 0]
    /\ sync = IdleSync
    /\ store = {}
    /\ pending = {}

ArchiveNext ==
    \/ SyncStart
    \/ SyncRecord
    \/ SyncEnd
    \/ ClockTick

\* A station with some archive, the store empty.
InitArchive ==
    /\ DriverInit /\ FanoutInit /\ IpcIdle /\ DaemonInit /\ ClientInit
    /\ ArchiveInit /\ WalkIdle /\ WireIdle /\ RainIdle /\ CrcIdle /\ PktIdle
    /\ LifeIdle /\ CalIdle

SpecArchive ==
    /\ InitArchive
    /\ [][ArchiveNext /\ UNCHANGED notArchive]_vars

RecordSizes == {ARCHIVE_RECORD_SIZE(m) : m \in ModelCodes}

\* The highest record slot that starts inside the ring.
LastSlot(S) == ((SRAM_MAX_ADDR - 1) \div S) * S

\* Pointers at record slots near either end of the ring.
Pointers(S) ==
    {k * S : k \in 0..MaxSlot} \cup {LastSlot(S) - k * S : k \in 0..MaxSlot}

\* Pairs of pointers whose walk is short: the walk does not run through
\* the middle of the ring.
ShortWalk(old_ptr, new_ptr, S) ==
    (new_ptr - old_ptr) % SRAM_MAX_ADDR <= (2 * MaxSlot + 2) * S

WalkInit ==
    \E S \in RecordSizes : \E o, n \in Pointers(S) :
        /\ ShortWalk(o, n, S)
        /\ walk = [pc |-> "args", old_ptr |-> o, new_ptr |-> n,
                   record_size |-> S, addresses |-> <<>>]

\* The call of _iter_archive_addresses.
Walk ==
    /\ walk.pc = "args"
    /\ walk' = [walk EXCEPT
                   !.pc = "done",
                   !.addresses = iter_archive_addresses(
                       walk.old_ptr, walk.new_ptr, walk.record_size)]

\* A call of _iter_archive_addresses with some arguments.
InitWalk ==
    /\ DriverInit /\ FanoutInit /\ IpcIdle /\ DaemonInit /\ ClientInit
    /\ ArchiveIdle /\ WalkInit /\ WireIdle /\ RainIdle /\ CrcIdle /\ PktIdle
    /\ LifeIdle /\ CalIdle

SpecWalk ==
    /\ InitWalk
    /\ [][Walk /\ UNCHANGED notWalk]_vars

\* ------------------------------------------------------------------------
\* One driver call at a time, with the serial line traced
\* ------------------------------------------------------------------------
\* The thread whose calls are traced, and the driver methods it calls.
WireThread == "ipc"

WireOps ==
    {"poll_loop", "read_rain_yearly", "read_station_time",
     "write_station_time", "clear_rain_daily", "clear_rain_yearly",
     "read_archive_pointers", "read_archive_period", "read_archive"}

\* Methods that write station memory between stop_polling() and
\* start_polling().
Bracketed == {"write_station_time", "clear_rain_daily", "clear_rain_yearly"}

\* Exchanges whose attempt begins with serial.flush(): _send_loop_once and
\* read_archive.  read_station_memory, read_link_memory and
\* write_station_memory send at once.
FlushBeforeSend(cmd) == cmd \in {"LOOP", "SRD"}

WireEvent(ev, d) ==
    [ev |-> ev, cmd |-> Cmd(d), idx |-> d.idx, attempt |-> d.attempt]

\* The CRC bytes serial.receive(n_bytes + 2) can have returned when the
\* read is accepted (len(data) >= n_bytes): none, one, or both.
CrcBytesRead == 0..2

WireCall ==
    /\ drv[WireThread].pc = "idle"
    /\ \E op \in WireOps :
         drv' = [drv EXCEPT ![WireThread] = Enter(WireThread, op)]
    /\ wirelog' = <<>>
    /\ unread' = 0
    /\ UNCHANGED <<lock, stop_requested>>

WireAcquireOuter == AcquireOuter(WireThread) /\ UNCHANGED wireVars

WireBeginSub == BeginSub(WireThread) /\ UNCHANGED wireVars

WireCheck == Check(WireThread) /\ UNCHANGED wireVars

\* The attempt's serial.flush() where the method has one, then
\* serial.send(cmd).  A flush discards what the input buffer holds.
WireSend ==
    /\ Send(WireThread)
    /\ LET d == drv[WireThread] IN
       IF FlushBeforeSend(Cmd(d))
       THEN /\ wirelog' = wirelog \o <<WireEvent("flush", d),
                                       WireEvent("send", d)>>
            /\ unread' = 0
       ELSE /\ wirelog' = Append(wirelog, WireEvent("send", d))
            /\ UNCHANGED unread

WireAck == Ack(WireThread) /\ UNCHANGED wireVars

\* The payload read.  A WRD or RRD read that is accepted has taken the
\* data bytes and those of the two CRC bytes that had arrived.
WirePayload ==
    /\ Payload(WireThread)
    /\ LET d == drv[WireThread] IN
       IF /\ Cmd(d) \in {"WRD", "RRD"}
          /\ drv'[WireThread].pc \in {"sub", "ret"}
          /\ drv'[WireThread].last = "ok"
       THEN \E got \in CrcBytesRead : unread' = 2 - got
       ELSE UNCHANGED unread
    /\ UNCHANGED wirelog

\* poll_loop's serial.flush() after a failed attempt.
WireFlush ==
    /\ Flush(WireThread)
    /\ wirelog' = Append(wirelog, WireEvent("flush", drv[WireThread]))
    /\ unread' = 0

WireReturn == Return(WireThread) /\ UNCHANGED wireVars

WireRequestStop == RequestStop /\ UNCHANGED wireVars

WireNext ==
    \/ WireCall
    \/ WireAcquireOuter
    \/ WireBeginSub
    \/ WireCheck
    \/ WireSend
    \/ WireAck
    \/ WirePayload
    \/ WireFlush
    \/ WireReturn
    \/ WireRequestStop

SpecWire ==
    Init /\ [][WireNext /\ UNCHANGED notWire]_vars

\* ------------------------------------------------------------------------
\* Rain rate from bucket tips, and its checkpoint across reconnects
\* ------------------------------------------------------------------------
\* Readings processed and connects made in one run; the rain_total values
\* (clicks) a reading carries; the seconds between two polls.
MaxSamples == 4
MaxConnects == 2
MaxClicks == 3
Elapsed == {30, 900, 901}

\* The rain rate a station of a family with a rain_rate byte reports.
ReportedRate == 3

\* Poller.__init__: _last_rain_total, _last_rain_tip_time and
\* _rain_rate_in_per_hr (kept in thousandths of an inch per hour).
NewRainPoller == [total |-> {}, tip |-> {}, rate |-> 0]

\* (clicks * 0.01) / (elapsed_s / 3600), in thousandths of in/hr.
TipRate(clicks, elapsed_s) == (clicks * 36000) \div elapsed_s

NoTipTimeout_Hour(elapsed_s) == elapsed_s > 3600

\* `if elapsed_s > 900:  # 15 min timeout`
NoTipTimeout(elapsed_s) == elapsed_s > 900

DecayedRate_Latest(rate, elapsed_s) == TipRate(1, elapsed_s)

\* min(self._rain_rate_in_per_hr, 0.01 / elapsed_hr)
DecayedRate(rate, elapsed_s) == Min2(rate, TipRate(1, elapsed_s))

\* round(self._rain_rate_in_per_hr * 10): tenths of in/hr.
Tenths(rate) == (rate + 50) \div 100

\* The rain-rate section of _process_reading: the poller's three fields
\* after a reading with this rain_total was processed at time t.
derive_rain_rate(p, rain_total, t) ==
    IF p.total = {} THEN [p EXCEPT !.total = {rain_total}]
    ELSE LET last  == One(p.total)
             delta == Max2(rain_total - last, 0)
         IN  IF delta > 0 /\ p.tip # {}
             THEN [total |-> {rain_total}, tip |-> {t},
                   rate |-> IF t - One(p.tip) > 0
                            THEN TipRate(delta, t - One(p.tip))
                            ELSE p.rate]
             ELSE IF delta > 0
             THEN [p EXCEPT !.total = {rain_total}, !.tip = {t}]
             ELSE IF p.tip # {}
             THEN [p EXCEPT !.total = {rain_total},
                            !.rate = IF NoTipTimeout(t - One(p.tip)) THEN 0
                                     ELSE IF t - One(p.tip) > 0
                                     THEN DecayedRate(p.rate,
                                                      t - One(p.tip))
                                     ELSE p.rate]
             ELSE [p EXCEPT !.total = {rain_total}]

\* datetime.isoformat() and datetime.fromisoformat().
isoformat(t) == [JStr("iso8601") EXCEPT !.i = t]
fromisoformat(j) == j.i

save_rain_state_norate(p) ==
    [last_rain_total |-> IF p.total = {} THEN JNone ELSE JInt(One(p.total)),
     last_rain_tip_time |-> IF p.tip = {} THEN JNone
                            ELSE isoformat(One(p.tip))]

\* _save_rain_state: the JSON document written to the state file.
save_rain_state(p) ==
    [last_rain_total |-> IF p.total = {} THEN JNone ELSE JInt(One(p.total)),
     last_rain_tip_time |-> IF p.tip = {} THEN JNone
                            ELSE isoformat(One(p.tip)),
     rain_rate_in_per_hr |-> JInt(p.rate)]

\* _restore_rain_state: the fields of the new poller once the state file,
\* if there is one, was read back.
restore_rain_state(p, file) ==
    IF file = {} THEN p
    ELSE LET state == One(file)
             tip   == state.last_rain_tip_time
         IN  [total |-> IF state.last_rain_total.t = "none" THEN {}
                        ELSE {state.last_rain_total.i},
              tip |-> IF tip.t = "str" THEN {fromisoformat(tip)} ELSE p.tip,
              rate |-> IF "rain_rate_in_per_hr" \in DOMAIN state
                       THEN state.rain_rate_in_per_hr.i ELSE 0]

\* _connect: a new Poller, _restore_rain_state(), and the poller task.
RainConnect ==
    /\ ~rain.attached
    /\ rain.task \in {"none", "ended"}
    /\ rain.connects < MaxConnects
    /\ \E reports \in BOOLEAN :
         rain' = [rain EXCEPT
                    !.obj = {restore_rain_state(NewRainPoller, rain.file)},
                    !.attached = TRUE,
                    !.task = "wait",
                    !.last = rain.obj,
                    !.fresh = (rain.file = {}),
                    !.reports = reports,
                    !.samples = <<>>,
                    !.connects = rain.connects + 1]

\* async_poll_loop() completed with a reading; the poller task is to be
\* resumed with it.
RainPollDone ==
    /\ rain.task = "wait"
    /\ rain.n < MaxSamples
    /\ \E dt \in Elapsed, total \in 0..MaxClicks :
         rain' = [rain EXCEPT
                    !.clock = rain.clock + dt,
                    !.n = rain.n + 1,
                    !.task = "ready",
                    !.reading = {[rain_total |-> total,
                                  rain_rate |-> IF rain.reports
                                                THEN {ReportedRate} ELSE {}]}]

\* The task resumes in _process_reading: the rain-rate section.
RainProcess ==
    /\ rain.task = "ready"
    /\ LET p  == One(rain.obj)
           r  == One(rain.reading)
           p2 == IF r.rain_rate = {}
                 THEN derive_rain_rate(p, r.rain_total, rain.clock)
                 ELSE p
       IN  rain' = [rain EXCEPT
                      !.obj = {p2},
                      !.task = "wait",
                      !.reading = {},
                      !.samples = Append(rain.samples,
                          [at |-> rain.clock, rain_total |-> r.rain_total,
                           reported |-> r.rain_rate # {},
                           since |-> {rain.clock - tip : tip \in p.tip},
                           tipped |-> \E last \in p.total :
                                          r.rain_total > last,
                           before |-> p.rate,
                           rate |-> p2.rate,
                           rain_rate |-> IF r.rain_rate = {}
                                         THEN Tenths(p2.rate)
                                         ELSE One(r.rain_rate)])]

\* _teardown_driver: _save_rain_state(), poller.stop(), poller_task.cancel()
\* in one step of the event loop; self.poller = None.
RainTeardown ==
    /\ rain.attached
    /\ rain' = [rain EXCEPT !.file = {save_rain_state(One(rain.obj))},
                            !.attached = FALSE,
                            !.task = "cancelled"]

\* The cancelled task is resumed with CancelledError in place of the
\* result it was waiting for, and run() ends.
RainTaskEnd ==
    /\ rain.task = "cancelled"
    /\ rain' = [rain EXCEPT !.task = "ended", !.reading = {}]

RainNext ==
    \/ RainConnect
    \/ RainPollDone
    \/ RainProcess
    \/ RainTeardown
    \/ RainTaskEnd

SpecRain ==
    Init /\ [][RainNext /\ UNCHANGED notRain]_vars

\* ------------------------------------------------------------------------
\* CCITT CRC (crc.py)
\* ------------------------------------------------------------------------
POLYNOMIAL == 4129

\* Longest byte sequence checked, and the byte values it is drawn from.
MaxBytes == 2
CrcBytes == {0, 1, 128, 165, 255}

\* a ^ b on non-negative integers.
BitXor[a \in Nat, b \in Nat] ==
    IF a = 0 THEN b
    ELSE IF b = 0 THEN a
    ELSE ((a + b) % 2) + 2 * BitXor[a \div 2, b \div 2]

\* The inner loop of _generate_crc_table: k more rounds of shift and
\* conditional xor with the polynomial, in 16 bits.
TableEntry[c \in Nat, k \in Nat] ==
    IF k = 0 THEN c
    ELSE TableEntry[(IF (c \div 32768) % 2 = 1
                     THEN BitXor[c * 2, POLYNOMIAL]
                     ELSE c * 2) % 65536, k - 1]

\* CRC_TABLE[i]
CRC_TABLE(i) == TableEntry[i * 256, 8]

\* crc_accum: (CRC_TABLE[((crc >> 8) ^ data) & 0xFF] ^ (crc << 8)) & 0xFFFF
crc_accum[c \in Nat, data \in Nat] ==
    BitXor[CRC_TABLE(BitXor[c \div 256, data] % 256), c * 256] % 65536

\* crc_calculate: the accumulator, from 0, over the bytes in order.
crc_calculate(data) ==
    LET acc[i \in 0..Len(data)] ==
            IF i = 0 THEN 0 ELSE crc_accum[acc[i - 1], data[i]]
    IN  acc[Len(data)]

\* crc_validate: the CRC over data and its two CRC bytes is 0.
crc_validate(data) == crc_calculate(data) = 0

BigEndian_Low(c) == <<c % 256, c \div 256>>

\* The two bytes of a 16-bit value, high byte first.
BigEndian(c) == <<c \div 256, c % 256>>

\* The byte sequence with bit k (counted from the low bit of the first
\* byte) inverted.
FlipBit(data, k) ==
    [data EXCEPT ![k \div 8 + 1] = BitXor[@, 2 ^ (k % 8)]]

CrcInit ==
    crc \in UNION {{[pc |-> "args", B |-> b, bit |-> k, framed |-> <<>>,
                     valid |-> FALSE, flipped |-> FALSE] :
                       k \in 0..(8 * (Len(b) + 2) - 1)} :
                    b \in SeqsUpTo(CrcBytes, MaxBytes)}

\* The sender appends the big-endian CRC of B to B.
CrcFrame ==
    /\ crc.pc = "args"
    /\ crc' = [crc EXCEPT !.pc = "framed",
                          !.framed = crc.B \o BigEndian(crc_calculate(crc.B))]

\* crc_validate on the framed bytes, and on the framed bytes with one bit
\* inverted.
CrcValidate ==
    /\ crc.pc = "framed"
    /\ crc' = [crc EXCEPT !.pc = "done",
                          !.valid = crc_validate(crc.framed),
                          !.flipped = crc_validate(FlipBit(crc.framed,
                                                           crc.bit))]

CrcNext ==
    \/ CrcFrame
    \/ CrcValidate

InitCrc ==
    /\ DriverInit /\ FanoutInit /\ IpcIdle /\ DaemonInit /\ ClientInit
    /\ ArchiveIdle /\ WalkIdle /\ WireIdle /\ RainIdle /\ CrcInit /\ PktIdle
    /\ LifeIdle /\ CalIdle

SpecCrc ==
    InitCrc /\ [][CrcNext /\ UNCHANGED notCrc]_vars

\* ------------------------------------------------------------------------
\* LOOP packet parser (loop_packet.py)
\* ------------------------------------------------------------------------
INVALID_TEMP_4NIB == 32767
INVALID_TEMP_NOT_CONNECTED == 32768
INVALID_HUMIDITY == 128
INVALID_WIND_DIR_4NIB == 32767
INVALID_SOLAR_RAD == 4095
INVALID_UV == 255

\* Number of base readings a packet is built from.
NumSeeds == 3

Families == {"basic", "groweather", "energy", "health"}

\* LOOP_DATA_SIZE, per family.
LOOP_DATA_SIZE(family) ==
    CASE family = "basic"      -> 15
      [] family = "groweather" -> 33
      [] family = "energy"     -> 27
      [] family = "health"     -> 25

\* data[offset] of a Python bytes object held as a sequence.
ByteAt(data, offset) == data[offset + 1]

unpack_u8(data, offset) == ByteAt(data, offset)

unpack_u16(data, offset) ==
    ByteAt(data, offset) + 256 * ByteAt(data, offset + 1)

unpack_i16_unsigned(data, offset) == unpack_u16(data, offset)

\* struct.unpack_from("<h", ...): two's complement.
unpack_i16(data, offset) ==
    IF unpack_u16(data, offset) >= 32768
    THEN unpack_u16(data, offset) - 65536
    ELSE unpack_u16(data, offset)

unpack_u24(data, offset) ==
    ByteAt(data, offset) + 256 * ByteAt(data, offset + 1)
        + 65536 * ByteAt(data, offset + 2)

valid_temp_4nib(value) ==
    IF value = INVALID_TEMP_4NIB \/ value = INVALID_TEMP_NOT_CONNECTED
    THEN {}
    ELSE IF value > 2500 \/ value < -900 THEN {}
    ELSE {value}

valid_humidity(value) ==
    IF value = INVALID_HUMIDITY \/ value > 100 THEN {} ELSE {value}

valid_wind_dir(value) ==
    IF value = INVALID_WIND_DIR_4NIB \/ value > 359 THEN {} ELSE {value}

valid_solar(value) ==
    IF value = INVALID_SOLAR_RAD \/ value >= INVALID_SOLAR_RAD THEN {}
    ELSE {value}

valid_uv(value) == IF value = INVALID_UV THEN {} ELSE {value}

\* One keyword argument of SensorReading(...): the field's offset, the
\* unpack function and the validity filter applied to it.
Field(offset, unpack, valid) ==
    [offset |-> offset, unpack |-> unpack, valid |-> valid]

\* _parse_basic, _parse_groweather, _parse_energy, _parse_health.
Layout(family) ==
    CASE family = "basic" ->
           [inside_temp      |-> Field(0, "i16", "temp"),
            outside_temp     |-> Field(2, "i16", "temp"),
            wind_speed       |-> Field(4, "u8", "raw"),
            wind_direction   |-> Field(5, "u16", "wind_dir"),
            barometer        |-> Field(7, "u16", "raw"),
            inside_humidity  |-> Field(9, "u8", "humidity"),
            outside_humidity |-> Field(10, "u8", "humidity"),
            rain_total       |-> Field(11, "u16", "raw")]
      [] family = "groweather" ->
           [soil_temp          |-> Field(3, "i16", "temp"),
            outside_temp       |-> Field(5, "i16", "temp"),
            wind_speed         |-> Field(7, "u8", "raw"),
            wind_direction     |-> Field(8, "u16", "wind_dir"),
            barometer          |-> Field(10, "u16", "raw"),
            rain_rate          |-> Field(12, "u8", "raw"),
            outside_humidity   |-> Field(13, "u8", "humidity"),
            rain_total         |-> Field(14, "u16", "raw"),
            solar_radiation    |-> Field(16, "u16", "solar"),
            wind_run_total     |-> Field(18, "u24", "raw"),
            et_total           |-> Field(21, "u16", "raw"),
            degree_days_total  |-> Field(23, "u24", "raw"),
            solar_energy_total |-> Field(26, "u24", "raw"),
            leaf_wetness       |-> Field(32, "u8", "raw")]
      [] family = "energy" ->
           [inside_temp      |-> Field(3, "i16", "temp"),
            outside_temp     |-> Field(5, "i16", "temp"),
            wind_speed       |-> Field(7, "u8", "raw"),
            wind_direction   |-> Field(8, "u16", "wind_dir"),
            barometer        |-> Field(10, "u16", "raw"),
            rain_rate        |-> Field(12, "u8", "raw"),
            outside_humidity |-> Field(13, "u8", "humidity"),
            rain_total       |-> Field(14, "u16", "raw"),
            solar_radiation  |-> Field(16, "u16", "solar")]
      [] family = "health" ->
           [inside_temp      |-> Field(3, "i16", "temp"),
            outside_temp     |-> Field(5, "i16", "temp"),
            wind_speed       |-> Field(7, "u8", "raw"),
            wind_direction   |-> Field(8, "u16", "wind_dir"),
            barometer        |-> Field(10, "u16", "raw"),
            rain_rate        |-> Field(12, "u8", "raw"),
            rain_total       |-> Field(13, "u16", "raw"),
            solar_radiation  |-> Field(15, "u16", "solar"),
            inside_humidity  |-> Field(17, "u8", "humidity"),
            outside_humidity |-> Field(18, "u8", "humidity"),
            uv_index         |-> Field(19, "u8", "raw_uv"),
            uv_dose          |-> Field(20, "u16", "raw")]

Unpack(kind, data, offset) ==
    CASE kind = "u8"  -> unpack_u8(data, offset)
      [] kind = "i16" -> unpack_i16(data, offset)
      [] kind = "u16" -> unpack_u16(data, offset)
      [] kind = "u24" -> unpack_u24(data, offset)

Valid(filter, value) ==
    CASE filter = "temp"     -> valid_temp_4nib(value)
      [] filter = "humidity" -> valid_humidity(value)
      [] filter = "wind_dir" -> valid_wind_dir(value)
      [] filter = "solar"    -> valid_solar(value)
      [] filter = "raw_uv"   -> valid_uv(value)
      [] OTHER               -> {value}

\* The SensorReading a family's parser builds from the data bytes.
parse_family(data, family) ==
    LET fields == Layout(family) IN
    [f \in DOMAIN fields |->
        Valid(fields[f].valid,
              Unpack(fields[f].unpack, data, fields[f].offset))]

\* parse_loop_packet on bytes: length, SOH, CRC over data and CRC bytes,
\* then the family's parser on the data bytes.  {} stands for None.
parse_loop_raw(raw, family) ==
    LET size  == LOOP_DATA_SIZE(family)
        total == 1 + size + 2
    IN  IF Len(raw) < total THEN {}
        ELSE IF raw[1] # SOH THEN {}
        ELSE IF ~crc_validate(SubSeq(raw, 2, total)) THEN {}
        ELSE {parse_family(SubSeq(raw, 2, 1 + size), family)}

\* The values a station can put into a field: three readings, taken in
\* turn.
BaseValue(field, seed) ==
    LET pick(values) == values[((seed - 1) % Len(values)) + 1] IN
    CASE field.valid = "temp"     -> pick(<<725, -50, -900>>)
      [] field.valid = "humidity" -> pick(<<45, 100, 0>>)
      [] field.valid = "wind_dir" -> pick(<<180, 0, 359>>)
      [] field.valid = "solar"    -> pick(<<500, 0, 4094>>)
      [] field.valid = "raw_uv"   -> pick(<<3, 0, 254>>)
      [] field.unpack = "u8"      -> pick(<<7, 0, 255>>)
      [] field.unpack = "u16"     -> pick(<<29920, 0, 65535>>)
      [] OTHER                    -> pick(<<70000, 0, 16777215>>)

\* The documented sentinel values of a field, as raw unsigned values.
Sentinels(field) ==
    CASE field.valid = "temp"     -> {INVALID_TEMP_4NIB,
                                      INVALID_TEMP_NOT_CONNECTED}
      [] field.valid = "humidity" -> {INVALID_HUMIDITY}
      [] field.valid = "wind_dir" -> {INVALID_WIND_DIR_4NIB}
      [] field.valid = "solar"    -> {INVALID_SOLAR_RAD}
      [] field.valid = "raw_uv"   -> {INVALID_UV}
      [] OTHER                    -> {}

Width(kind) ==
    CASE kind = "u8" -> 1 [] kind = "u24" -> 3 [] OTHER -> 2

\* The station's encoding of the data bytes: each field little-endian at
\* its offset (a negative temperature in two's complement), the target
\* field holding the sentinel, unused bytes 0.
EncodeData(family, seed, target, sentinel) ==
    LET fields == Layout(family)
        rawval(f) == IF f = target THEN sentinel
                     ELSE (BaseValue(fields[f], seed) + 16777216)
                              % (256 ^ Width(fields[f].unpack))
    IN  [o \in 1..LOOP_DATA_SIZE(family) |->
            IF \E f \in DOMAIN fields :
                   o - 1 \in fields[f].offset..
                             (fields[f].offset + Width(fields[f].unpack) - 1)
            THEN LET f == CHOOSE g \in DOMAIN fields :
                              o - 1 \in fields[g].offset..
                                  (fields[g].offset
                                       + Width(fields[g].unpack) - 1)
                 IN  (rawval(f) \div (256 ^ (o - 1 - fields[f].offset))) % 256
            ELSE 0]

PktInit ==
    parsed \in UNION {UNION {{[pc |-> "args", family |-> family,
                              seed |-> seed, target |-> f,
                              sentinel |-> v, raw |-> <<>>, out |-> {}] :
                                 v \in Sentinels(Layout(family)[f])} :
                              f \in DOMAIN Layout(family)} :
                        family \in Families, seed \in 1..NumSeeds}

\* The station sends SOH, the data bytes and their CRC, high byte first.
PktSend ==
    /\ parsed.pc = "args"
    /\ LET data == EncodeData(parsed.family, parsed.seed, parsed.target,
                              parsed.sentinel)
       IN  parsed' = [parsed EXCEPT
                        !.pc = "sent",
                        !.raw = <<SOH>> \o data
                                    \o BigEndian(crc_calculate(data))]

\* parse_loop_packet(raw, model)
PktParse ==
    /\ parsed.pc = "sent"
    /\ parsed' = [parsed EXCEPT
                    !.pc = "done",
                    !.out = parse_loop_raw(parsed.raw, parsed.family)]

PktNext ==
    \/ PktSend
    \/ PktParse

InitPkt ==
    /\ DriverInit /\ FanoutInit /\ IpcIdle /\ DaemonInit /\ ClientInit
    /\ ArchiveIdle /\ WalkIdle /\ WireIdle /\ RainIdle /\ CrcIdle /\ PktInit
    /\ LifeIdle /\ CalIdle

SpecPkt ==
    InitPkt /\ [][PktNext /\ UNCHANGED notPkt]_vars

\* ------------------------------------------------------------------------
\* LoggerDaemon: handlers of several connections, tasks, worker threads
\* ------------------------------------------------------------------------
\* IPC commands handled in a run.
MaxCmds == 3

\* list_serial_ports() and the baud rates auto_detect tries on each.
list_serial_ports == <<"ttyUSB0">>
Bauds == <<2400, 1200>>
Ports == {list_serial_ports[i] : i \in DOMAIN list_serial_ports}
NumAttempts == Len(list_serial_ports) * Len(Bauds)
AttemptPort(i) == list_serial_ports[((i - 1) \div Len(Bauds)) + 1]

\* The families a station on the port answers detection with.
DetectableModels == {StationModel.WIZARD_III, StationModel.MONITOR}

\* LinkDriver(port, baud_rate, timeout) as __init__ leaves it.
LinkDriver(port) ==
    [port |-> port, connected |-> FALSE, is_open |-> FALSE,
     station_model |-> {}, stop_requested |-> FALSE]

\* LinkDriver.open
driver_open(L, d) ==
    [L EXCEPT !.drivers[d].connected = TRUE, !.drivers[d].is_open = TRUE]

\* Tasks that were started and have neither ended nor been cancelled.
LiveTasks(L) ==
    {t \in 1..Len(L.tasks) : L.tasks[t].pc \in {"ready", "wait"}}

\* A worker thread is inside an exchange on driver d, holding its _io_lock.
MidExchange(L, d) == \E th \in L.threads : th.driver = d /\ th.held

\* LinkDriver.close: it takes no lock.
driver_close(L, d) ==
    [L EXCEPT !.drivers[d].connected = FALSE,
              !.drivers[d].is_open = FALSE]

\* loop.run_in_executor(None, <driver method>): a worker thread for the
\* coroutine of handler h or of task t, not yet holding the lock.
run_in_executor(L, h, t, d) ==
    [L EXCEPT !.threads = @ \cup
                  {[h |-> h, t |-> t, driver |-> d, held |-> FALSE]}]

Logged(L, by, events) ==
    IF by = "shutdown" THEN [L EXCEPT !.log = @ \o events] ELSE L

\* _teardown_driver up to its await: checkpoint the rain state and stop
\* the poller (which requests the driver's stop), cancel the poller task.
teardown_begin(L, by) ==
    LET p  == L.poller
        L1 == IF p = 0 THEN L
              ELSE LET d  == L.tasks[p].driver
                       Ls == [L EXCEPT !.tasks[p].running = FALSE]
                   IN  Logged(IF d = 0 THEN Ls
                              ELSE [Ls EXCEPT
                                       !.drivers[d].stop_requested = TRUE],
                              by, <<"save_rain_state", "poller.stop">>)
    IN  IF L.poller_task = 0 THEN L1
        ELSE Logged([L1 EXCEPT !.tasks[L.poller_task].pc = "cancelled"],
                    by, <<"poller_task.cancel">>)

\* _teardown_driver after its await: close self.driver if there is one,
\* forget driver, poller and poller task.
teardown_end(L, by) ==
    LET L1 == IF L.driver = 0 THEN L
              ELSE Logged(driver_close(L, L.driver), by,
                          <<"driver.close">>)
    IN  [L1 EXCEPT !.driver = 0, !.poller = 0, !.poller_task = 0]

\* _connect up to its first await: self.driver is a fresh LinkDriver; when
\* open() returns detection starts on a worker thread, when it raises the
\* handler ends with the error.
connect_begin(L, h, port, opened) ==
    LET d  == Len(L.drivers) + 1
        L1 == [L EXCEPT !.drivers = Append(@, LinkDriver(port)),
                        !.driver = d]
    IN  IF opened
        THEN [run_in_executor(driver_open(L1, d), h, 0, d)
                 EXCEPT !.h[h] = [IdleHandler EXCEPT !.pc = "detect"]]
        ELSE [L1 EXCEPT !.h[h] = IdleHandler]

\* A temporary driver of probe or auto_detect: tmp = LinkDriver(...),
\* tmp.open(), then detection on a worker thread.
tmp_begin(L, h, port, pc, i) ==
    LET d  == Len(L.drivers) + 1
        L1 == [L EXCEPT !.drivers = Append(@, LinkDriver(port))]
    IN  [run_in_executor(driver_open(L1, d), h, 0, d)
            EXCEPT !.h[h] = [pc |-> pc, port |-> port, tmp |-> d, i |-> i]]

\* The daemon's active driver has the port open.
ActiveOn(L, port) ==
    /\ L.driver # 0
    /\ DriverConnected(L.drivers[L.driver])
    /\ L.drivers[L.driver].port = port

Serving(h) ==
    /\ life.ipc_server = "serving"
    /\ life.h[h].pc = "idle"
    /\ life.ncmds < MaxCmds

\* _h_connect and _h_reconnect (the configured port): tear down, connect.
LifeConnect(h) ==
    /\ Serving(h)
    /\ \E port \in Ports :
         LET L1 == teardown_begin([life EXCEPT !.ncmds = @ + 1], "connect")
         IN  IF life.poller_task # 0
             THEN life' = [L1 EXCEPT !.h[h] = [IdleHandler EXCEPT
                                                  !.pc = "teardown",
                                                  !.port = port]]
             ELSE \E opened \in BOOLEAN :
                    life' = connect_begin(teardown_end(L1, "connect"),
                                          h, port, opened)

\* The wait for the cancelled poller task is over: the rest of the
\* teardown, then _connect.
LifeTeardownDone(h) ==
    /\ life.ipc_server = "serving"
    /\ life.h[h].pc = "teardown"
    /\ \E opened \in BOOLEAN :
         life' = connect_begin(teardown_end(life, "connect"),
                               h, life.h[h].port, opened)

\* The worker thread of handler h.
ThreadOf(h) == CHOOSE th \in life.threads : th.h = h

Resumes(h, pc) ==
    /\ life.ipc_server = "serving"
    /\ life.h[h].pc = pc
    /\ \E th \in life.threads : th.h = h /\ th.held

\* detect_station_type on driver d can have read the model nibble.
Answered(d) == life.drivers[d].is_open /\ ~life.drivers[d].stop_requested

\* async_detect_station_type of _connect returned or raised; on return
\* `await self.driver.async_read_calibration()` starts on whatever
\* self.driver is now.
LifeDetectDone(h) ==
    /\ Resumes(h, "detect")
    /\ LET th == ThreadOf(h)
           L1 == [life EXCEPT !.threads = @ \ {th}]
       IN  \/ life' = [L1 EXCEPT !.h[h] = IdleHandler]
           \/ /\ Answered(th.driver)
              /\ \E m \in DetectableModels :
                   LET L2 == [L1 EXCEPT
                                 !.drivers[th.driver].station_model = {m}]
                   IN  life' = IF L2.driver = 0
                               THEN [L2 EXCEPT !.h[h] = IdleHandler]
                               ELSE [run_in_executor(L2, h, 0, L2.driver)
                                        EXCEPT !.h[h].pc = "calib"]

\* A task created by asyncio.create_task.
Task(kind, d) ==
    [kind |-> kind, driver |-> d, pc |-> "ready", running |-> TRUE]

\* async_read_calibration returned (read_station_memory swallows every
\* failure): the archive sync task is created and not kept, the poller and
\* its task are created on self.driver and kept.
LifeCalibDone(h) ==
    /\ Resumes(h, "calib")
    /\ LET th == ThreadOf(h)
           t  == Len(life.tasks) + 1
           bg == IF life.driver = 0
                 THEN [Task("sync", 0) EXCEPT !.pc = "done"]
                 ELSE Task("sync", life.driver)
       IN  life' = [life EXCEPT
                       !.threads = @ \ {th},
                       !.tasks = @ \o <<bg, Task("poller", life.driver)>>,
                       !.poller = t + 1,
                       !.poller_task = t + 1,
                       !.h[h] = IdleHandler]

\* _h_probe: the current information when the active driver is connected
\* on the port, a temporary driver otherwise.
LifeProbe(h) ==
    /\ Serving(h)
    /\ \E port \in Ports :
         LET L1 == [life EXCEPT !.ncmds = @ + 1]
         IN  IF ActiveOn(life, port)
             THEN life' = L1
             ELSE \/ life' = L1
                  \/ life' = tmp_begin(L1, h, port, "probe", 0)

\* The detection of _h_probe returned or raised: finally tmp.close().
LifeProbeDone(h) ==
    /\ Resumes(h, "probe")
    /\ life' = [driver_close([life EXCEPT !.threads = @ \ {ThreadOf(h)}],
                             life.h[h].tmp)
                   EXCEPT !.h[h] = IdleHandler]

\* The loop of _h_auto_detect from attempt `from` on: attempts whose open
\* raises are noted, the first that opens is detected on a worker thread.
auto_attempts(L, h, from) ==
    {[L EXCEPT !.h[h] = IdleHandler]} \cup
    {tmp_begin(L, h, AttemptPort(i), "auto", i) : i \in from..NumAttempts}

\* _h_auto_detect: the current port when the active driver is connected
\* and its station_model is truthy, the scan of the ports otherwise.
LifeAutoDetect(h) ==
    /\ Serving(h)
    /\ LET L1 == [life EXCEPT !.ncmds = @ + 1]
       IN  IF /\ life.driver # 0
              /\ DriverConnected(life.drivers[life.driver])
              /\ Truthy(life.drivers[life.driver].station_model)
           THEN life' = L1
           ELSE life' \in auto_attempts(L1, h, 1)

\* The detection of an attempt returned (found) or raised (next attempt):
\* finally tmp.close().
LifeAutoDone(h) ==
    /\ Resumes(h, "auto")
    /\ LET L1 == driver_close([life EXCEPT !.threads = @ \ {ThreadOf(h)}],
                              life.h[h].tmp)
       IN  \/ /\ Answered(life.h[h].tmp)
              /\ life' = [L1 EXCEPT !.h[h] = IdleHandler]
           \/ life' \in auto_attempts(L1, h, life.h[h].i + 1)

\* Poller.run and async_sync_archive: the next exchange of the task goes
\* to a worker thread.
LifeTaskStep(t) ==
    /\ life.ipc_server = "serving"
    /\ life.tasks[t].pc = "ready"
    /\ life.tasks[t].running
    /\ life.tasks[t].driver # 0
    /\ life' = [run_in_executor(life, 0, t, life.tasks[t].driver)
                   EXCEPT !.tasks[t].pc = "wait"]

\* async_sync_archive has read its last record.
LifeSyncDone(t) ==
    /\ life.ipc_server = "serving"
    /\ life.tasks[t].kind = "sync"
    /\ life.tasks[t].pc = "ready"
    /\ life' = [life EXCEPT !.tasks[t].pc = "done"]

\* A worker thread enters `with self._io_lock` of its driver.
LifeThreadBegin(th) ==
    /\ life.ipc_server = "serving"
    /\ ~th.held
    /\ ~MidExchange(life, th.driver)
    /\ life' = [life EXCEPT !.threads = (@ \ {th}) \cup
                                {[th EXCEPT !.held = TRUE]}]

\* The exchange of a task's worker thread is over: the task goes on if it
\* still waits for it, a cancelled task has left already.
LifeThreadEnd(th) ==
    /\ life.ipc_server = "serving"
    /\ th.t # 0
    /\ th.held
    /\ life' = [life EXCEPT
                   !.threads = @ \ {th},
                   !.tasks[th.t].pc = IF @ = "wait" THEN "ready" ELSE @]

\* shutdown() after _teardown_driver: `await self.ipc_server.stop()`.
shutdown_end(L) ==
    [teardown_end(L, "shutdown") EXCEPT
        !.log = @ \o <<"ipc_server.stop">>,
        !.ipc_server = "stopped",
        !.sd = "stopped"]

\* SIGTERM / SIGINT: shutdown() up to the await of the teardown, or to its
\* end when there is no poller task to wait for.
LifeShutdown ==
    /\ life.sd = "run"
    /\ LET L1 == teardown_begin(life, "shutdown")
       IN  life' = IF life.poller_task # 0
                   THEN [L1 EXCEPT !.sd = "teardown"]
                   ELSE shutdown_end(L1)

\* The wait for the cancelled poller task is over.
LifeShutdownDone ==
    /\ life.sd = "teardown"
    /\ life' = shutdown_end(life)

LifeNext ==
    \/ \E h \in Clients : LifeConnect(h)
    \/ \E h \in Clients : LifeTeardownDone(h)
    \/ \E h \in Clients : LifeDetectDone(h)
    \/ \E h \in Clients : LifeCalibDone(h)
    \/ \E h \in Clients : LifeProbe(h)
    \/ \E h \in Clients : LifeProbeDone(h)
    \/ \E h \in Clients : LifeAutoDetect(h)
    \/ \E h \in Clients : LifeAutoDone(h)
    \/ \E t \in 1..Len(life.tasks) : LifeTaskStep(t)
    \/ \E t \in 1..Len(life.tasks) : LifeSyncDone(t)
    \/ \E th \in life.threads : LifeThreadBegin(th)
    \/ \E th \in life.threads : LifeThreadEnd(th)
    \/ LifeShutdown
    \/ LifeShutdownDone

SpecLife ==
    Init /\ [][LifeNext /\ UNCHANGED notLife]_vars

\* ------------------------------------------------------------------------
\* LinkDriver.read_calibration and write_calibration beside the poller
\* ------------------------------------------------------------------------
\* Calls of read_calibration / write_calibration in a run.
MaxCalOps == 3

\* The five calibration cells, in the order both methods visit them; the
\* last is RAIN_CAL.
NumCells == 5

\* The largest value struct.pack("<H", v) takes.
U16Max == 65535

\* rain_cal of the calibration a write_config message carries, and what
\* the station's RAIN_CAL cell can hold at first.
RainCals == {-1, 0, 1, DefaultRainCal}
StationRainCals == {0, DefaultRainCal}

\* struct.pack("<H", offsets.rain_cal) raises struct.error.
PackError(v) == v < 0 \/ v > U16Max

\* async_read_calibration of _connect, before the poller is started:
\* read_calibration on a worker thread.
CalRead ==
    /\ cal.pc = "idle"
    /\ cal.poll = "none"
    /\ cal.n < MaxCalOps
    /\ cal' = [cal EXCEPT !.op = "read_calibration", !.pc = "flush",
                          !.n = @ + 1]

\* _connect after the calibration was read: the poller task is started.
CalStartPoller ==
    /\ cal.pc = "idle"
    /\ cal.poll = "none"
    /\ cal.op = "read_calibration"
    /\ cal' = [cal EXCEPT !.poll = "idle"]

\* _h_write_config with a calibration: CalibrationOffsets from the message,
\* write_calibration on a worker thread.
CalWrite ==
    /\ cal.pc = "idle"
    /\ cal.poll # "none"
    /\ cal.n < MaxCalOps
    /\ \E v \in RainCals :
         cal' = [cal EXCEPT !.op = "write_calibration", !.pc = "w_lock",
                            !.offsets = v, !.ok = TRUE, !.n = @ + 1]

\* `with self._io_lock: self.stop_polling()`
CalWriteLock ==
    /\ cal.pc = "w_lock"
    /\ cal.lock = "none"
    /\ cal' = [cal EXCEPT !.lock = "ipc", !.pc = "w_cell", !.i = 1]

\* One `ok &= self.write_station_memory(...)`: acknowledged or not. The
\* pack of a rain_cal outside 0..65535 raises: finally START, the lock is
\* released and the call ends with the calibration as it was.
CalWriteCell ==
    /\ cal.pc = "w_cell"
    /\ IF cal.i = NumCells /\ PackError(cal.offsets)
       THEN cal' = [cal EXCEPT !.lock = "none", !.pc = "idle", !.i = 0]
       ELSE \E acked \in BOOLEAN :
              cal' = [cal EXCEPT
                         !.ok = @ /\ acked,
                         !.station = IF cal.i = NumCells /\ acked
                                     THEN cal.offsets ELSE @,
                         !.i = IF cal.i < NumCells THEN @ + 1 ELSE @,
                         !.pc = IF cal.i < NumCells THEN @ ELSE "w_start"]

\* finally START and the end of the with block; then `self.calibration =
\* offsets` when every write was acknowledged, read_calibration otherwise.
CalWriteStart ==
    /\ cal.pc = "w_start"
    /\ cal' = IF cal.ok
              THEN [cal EXCEPT !.lock = "none", !.pc = "idle", !.i = 0,
                               !.rain_cal = cal.offsets]
              ELSE [cal EXCEPT !.lock = "none", !.pc = "flush", !.i = 0]

\* read_calibration: `self.serial.flush()`, before any lock is taken.
CalFlush ==
    /\ cal.pc = "flush"
    /\ cal' = [cal EXCEPT !.pc = "r_cell", !.i = 1]

\* read_station_memory of the next cell: `with self._io_lock`.
CalReadBegin ==
    /\ cal.pc = "r_cell"
    /\ cal.lock = "none"
    /\ cal' = [cal EXCEPT !.lock = "ipc", !.pc = "r_wait"]

\* read_station_memory returned the cell or None; the rain cell is taken
\* only when it is above 0.
CalReadEnd ==
    /\ cal.pc = "r_wait"
    /\ \E data \in BOOLEAN :
         cal' = [cal EXCEPT
                    !.lock = "none",
                    !.rain_cal = IF cal.i = NumCells /\ data
                                    /\ cal.station > 0
                                 THEN cal.station ELSE @,
                    !.i = IF cal.i < NumCells THEN @ + 1 ELSE 0,
                    !.pc = IF cal.i < NumCells THEN "r_cell" ELSE "idle"]

\* poll_loop on the poller's worker thread: `with self._io_lock`.
CalPollBegin ==
    /\ cal.poll = "idle"
    /\ cal.lock = "none"
    /\ cal' = [cal EXCEPT !.lock = "poller", !.poll = "exchange"]

\* poll_loop returned.
CalPollEnd ==
    /\ cal.poll = "exchange"
    /\ cal' = [cal EXCEPT !.lock = "none", !.poll = "idle"]

CalInit ==
    \E v \in StationRainCals :
        cal = [pc |-> "idle", op |-> "none", i |-> 0, ok |-> TRUE,
               offsets |-> DefaultRainCal, rain_cal |-> DefaultRainCal,
               station |-> v, lock |-> "none", poll |-> "none", n |-> 0]

CalNext ==
    \/ CalRead
    \/ CalStartPoller
    \/ CalWrite
    \/ CalWriteLock
    \/ CalWriteCell
    \/ CalWriteStart
    \/ CalFlush
    \/ CalReadBegin
    \/ CalReadEnd
    \/ CalPollBegin
    \/ CalPollEnd

\* A driver that was just opened, the station's rain cell holding a value.
InitCal ==
    /\ DriverInit /\ FanoutInit /\ IpcIdle /\ DaemonInit /\ ClientInit
    /\ ArchiveIdle /\ WalkIdle /\ WireIdle /\ RainIdle /\ CrcIdle /\ PktIdle
    /\ LifeIdle /\ CalInit

SpecCal ==
    InitCal /\ [][CalNext /\ UNCHANGED notCal]_vars

\* ------------------------------------------------------------------------
\* Properties of the driver (checked under SpecDriver)
\* ------------------------------------------------------------------------
ExchangesInFlight == {t \in Threads : InFlight(drv[t])}

\* C1: at any instant at most one device exchange (command sent, ACK wait or
\* payload read pending) is in flight on the serial device, whatever the
\* interleaving of the poller's LOOP polls, the archive syncer's reads and
\* the IPC-triggered commands on their worker threads.
C1_SingleExchangeInFlight == Cardinality(ExchangesInFlight) <= 1

\* An IPC command's exchange is in flight while the poller and the archive
\* syncer both wait for the I/O lock.
C1_Witness ==
    /\ InFlight(drv["ipc"])
    /\ drv["poller"].pc = "sub" /\ drv["poller"].op = "poll_loop"
    /\ drv["sync"].pc = "sub" /\ drv["sync"].op = "read_archive"

\* Between the send of STOP and the end of START of one write_station_time.
InBracket(d) ==
    /\ d.op = "write_station_time"
    /\ d.pc # "ret"
    /\ d.idx > 1 \/ d.pc = "ack"

\* C2: the STOP, WWR(time), WWR(date), START sequence of write_station_time
\* is atomic with respect to the other callers: while one call is between
\* its STOP and the end of its START no other thread has an exchange in
\* flight and no other thread begins one.
C2_WriteTimeAtomic ==
    /\ [](\A t \in Threads : InBracket(drv[t]) =>
             \A u \in Threads \ {t} : ~InFlight(drv[u]))
    /\ [][\A t \in Threads : InBracket(drv[t]) =>
             \A u \in Threads \ {t} :
                 ~(drv[u].pc = "send" /\ drv'[u].pc = "ack")]_vars

\* The date WWR of write_station_time is in flight while the poller waits
\* to start a LOOP poll.
C2_Witness ==
    /\ drv["ipc"].op = "write_station_time" /\ drv["ipc"].idx = 3
    /\ InFlight(drv["ipc"])
    /\ drv["poller"].op = "poll_loop" /\ drv["poller"].pc = "sub"

\* The calibration law on one reading: offsets added to the temperatures,
\* subtracted from the barometer, humidity offset added and clamped.
Calibrated(raw, out) ==
    /\ out.inside_temp = {x + calibration.inside_temp : x \in raw.inside_temp}
    /\ out.outside_temp = {x + calibration.outside_temp : x \in raw.outside_temp}
    /\ out.barometer = {x - calibration.barometer : x \in raw.barometer}
    /\ \A h \in raw.outside_humidity :
         out.outside_humidity =
             {IF h + calibration.outside_hum > 100 THEN 100
              ELSE IF h + calibration.outside_hum < 1 THEN 1
              ELSE h + calibration.outside_hum}
    /\ raw.outside_humidity = {} => out.outside_humidity = {}

\* C8: poll_loop makes at most MAX_RETRIES + 1 LOOP attempts per call; every
\* failed attempt before the one in progress was followed by a flush; it
\* returns the calibrated reading of the first attempt that succeeded, and
\* returns None only when all attempts failed or stop was requested.
C8_PollLoopRetries ==
    \A t \in Threads : drv[t].op = "poll_loop" =>
        /\ drv[t].nfail <= MAX_RETRIES + 1
        /\ drv[t].pc \in {"check", "send", "ack", "payload"} =>
              /\ drv[t].attempt = drv[t].nfail
              /\ drv[t].attempt <= MAX_RETRIES
              /\ drv[t].flushes = drv[t].nfail
        /\ drv[t].pc = "ret" =>
              /\ drv[t].flushes <= MAX_RETRIES
              /\ drv[t].reading # {} =>
                    /\ drv[t].nfail <= MAX_RETRIES
                    /\ drv[t].flushes = drv[t].nfail
                    /\ drv[t].raw # {}
                    /\ \A raw \in drv[t].raw : \A out \in drv[t].reading :
                          Calibrated(raw, out)
              /\ drv[t].reading = {} =>
                    \/ drv[t].nfail = MAX_RETRIES + 1 /\ drv[t].flushes = MAX_RETRIES
                    \/ drv[t].last = "stopped"

\* poll_loop returned a reading from its third attempt, after two failed
\* attempts and two flushes.
C8_Witness ==
    /\ drv["poller"].op = "poll_loop" /\ drv["poller"].pc = "ret"
    /\ drv["poller"].nfail = MAX_RETRIES /\ drv["poller"].flushes = MAX_RETRIES
    /\ drv["poller"].reading # {}

\* C9: stop is cooperative.  Once the flag is set, a retry loop that reaches
\* its check starts no further attempt and its method returns None/False;
\* setting the flag changes neither the position of any call nor the lock,
\* and a call whose exchange was in flight when the flag was set still
\* returns what that exchange produced.
C9_StopCooperative ==
    /\ [][\A t \in Threads :
            (drv[t].pc = "check" /\ stop_requested /\ drv'[t] # drv[t]) =>
                /\ drv'[t].pc \in {"ret", "sub"}
                /\ drv'[t].last = "stopped"
                /\ ~drv'[t].ok
                /\ drv'[t].reading = {}]_vars
    /\ [][(stop_requested' /\ ~stop_requested) =>
            /\ lock' = lock
            /\ \A t \in Threads : drv'[t].pc = drv[t].pc
                                  /\ drv'[t].idx = drv[t].idx
                                  /\ drv'[t].attempt = drv[t].attempt]_vars
    /\ [](\A t \in Threads :
            (drv[t].pc = "ret" /\ drv[t].op = "poll_loop" /\ drv[t].raw # {})
                => drv[t].reading # {})

\* The poll whose exchange was in flight when stop was requested returned
\* its reading, and the archive read that came to its check afterwards
\* returned None without sending.
C9_Witness ==
    /\ stop_requested
    /\ drv["poller"].midstop /\ drv["poller"].pc = "ret"
    /\ drv["poller"].reading # {}
    /\ drv["sync"].pc = "ret" /\ drv["sync"].last = "stopped"
    /\ drv["sync"].op = "read_archive"

\* ------------------------------------------------------------------------
\* Properties of the poller and the broadcast (checked under SpecFanout)
\* ------------------------------------------------------------------------
\* C3: no exception escapes broadcast_to_subscribers, whatever clients
\* subscribe, unsubscribe or drop their connection while the broadcast is
\* suspended on a write: the for loop over the subscriber set never raises.
C3_NoExceptionEscapesBroadcast == bc.pc # "raised"

\* C4: when a broadcast ends, every subscriber whose write failed in it has
\* been removed from the subscriber set, and every other subscriber that was
\* subscribed throughout it and whose connection is open has received its
\* sensor_update; this holds for every broadcast, hence for every
\* subsequent one.
C4_DeadEvictedOthersServed ==
    [][(bc.pc \in {"next", "raised"} /\ bc'.pc = "idle" /\ ~cancelled') =>
          /\ bc.dead \cap subscribers' = {}
          /\ \A c \in bc.stayed \ bc.dead :
                conn[c] = "open" =>
                    \E i \in 1..Len(received'[c]) : received'[c][i] = bc.msg]_vars

\* C5: every sensor_update delivered to a subscriber corresponds to a
\* sensor_readings row already persisted for the same tick with the same
\* timestamp (so a reading whose store write failed is never broadcast).
C5_BroadcastMatchesPersistedRow ==
    \A c \in Clients : \A i \in 1..Len(received[c]) :
        \E j \in 1..Len(rows) :
            /\ rows[j].tick = received[c][i].tick
            /\ rows[j].ts = received[c][i].ts

\* C6: the polling loop never aborts on a recoverable error.  While the
\* poller is running it never leaves the loop; a step that counts a failed
\* tick (poll timeout or CRC failure, store error, broadcast error) goes to
\* the inter-poll sleep, the sleep goes back to the loop test, and the loop
\* test starts another poll.
C6_LoopNeverAborts ==
    [][running' =>
          /\ ppc' # "exit"
          /\ timeouts' # timeouts => ppc' = "sleep"
          /\ (ppc = "except" /\ ppc' # ppc) => ppc' = "sleep"
          /\ (ppc = "sleep" /\ ppc' # ppc) => ppc' = "top"
          /\ (ppc = "top" /\ ppc' # ppc) => ppc' = "poll"]_vars

\* The first tick stored its row and then failed in the broadcast (a
\* subscriber was written, yet the tick was counted as failed); the poller
\* slept and is polling again.
C6_Witness ==
    /\ running /\ ppc = "poll" /\ tick = 2
    /\ timeouts = 1 /\ Len(rows) = 1
    /\ \E c \in Clients : Len(received[c]) > 0

\* C7: when a LOOP attempt failed validation and a later attempt of the
\* same poll_loop call was clean (and the store accepted the row), the tick
\* ends with exactly one more row, the row of this tick, and with the
\* timeouts counter unchanged.
C7_RetriedPollOneRowNoTimeout ==
    (ppc = "sleep" /\ tick0.retried /\ tick0.storeok) =>
        /\ Len(rows) = tick0.rows + 1
        /\ rows[Len(rows)].tick = tick
        /\ timeouts = tick0.timeouts

\* C10: each subscriber receives the sensor_update messages in the order
\* the poller produced them, none twice: the ticks of the messages written
\* to a subscriber are strictly increasing.
C10_PerSubscriberFifo ==
    \A c \in Clients : \A i, j \in 1..Len(received[c]) :
        i < j => received[c][i].tick < received[c][j].tick

\* C11: the broadcast is non-blocking: it never waits on a subscriber.
\* Whenever broadcast_to_subscribers is suspended in `await writer.drain()`
\* the drain can return at once, whatever the subscriber does, so the
\* remaining subscribers and the poller's next tick are not held up.
C11_BroadcastNeverWaits ==
    bc.pc = "drain" => ENABLED BroadcastDrain

\* ------------------------------------------------------------------------
\* Properties of one IPC connection (checked under SpecIpc)
\* ------------------------------------------------------------------------
\* C12: on one connection the lines are handled in arrival order and each
\* line taken has produced exactly one response carrying an ok boolean by
\* the time the next one is taken: the i-th response answers the i-th line,
\* and no line is left without a response once the handler has moved on or
\* ended.
C12_OneResponsePerRequestInOrder ==
    /\ \A i \in 1..Len(replies) : replies[i].req = i /\ replies[i].ok \in BOOLEAN
    /\ Len(replies) = IF hpc \in {"handler", "caught"} THEN nread - 1 ELSE nread

\* C13: when a registered handler raised, the server writes
\* {ok: false, error: str(exc)} as the response to that request and goes
\* back to reading the connection, which stays open.
C13_HandlerErrorAnswered ==
    [][(hpc = "caught" /\ hpc' # hpc) =>
            /\ replies' = Append(replies, ReplyTo(nread, FALSE, hexc))
            /\ hpc' = "read"
            /\ conn' = conn]_vars

\* A request was served after a handler exception had been answered.
C13_Witness ==
    \E i, j \in 1..Len(replies) :
        /\ i < j
        /\ replies[i].error \in HandlerErrors
        /\ replies[j].ok

\* C14: a line that is unframed (no newline within the reader's limit) or
\* not JSON is answered {ok: false, error: "Invalid JSON"} and the handler
\* goes on reading the connection.
C14_BadLineAnswered ==
    [][(hpc = "read" /\ inq # <<>> /\ Head(inq) \in {"garbage", "toolong"}
        /\ nread' = nread + 1) =>
            /\ replies' = Append(replies, ReplyTo(nread + 1, FALSE, "Invalid JSON"))
            /\ hpc' = "read"
            /\ conn' = conn]_vars

\* C39: whatever line readline returned (JSON that is not an object and an
\* object without cmd included), the server writes exactly one reply for it
\* and keeps the connection open: the step that takes the line either
\* appends that one reply or enters the registered handler, and the handler
\* is left only at end-of-stream.
C39_EveryLineAnsweredConnectionKept ==
    [][(hpc = "read" /\ inq # <<>> /\ ~readline(Head(inq)).raised
        /\ nread' = nread + 1) =>
            /\ conn' = conn
            /\ hpc' \in {"read", "handler"}
            /\ hpc' = "read" =>
                 /\ Len(replies') = Len(replies) + 1
                 /\ replies'[Len(replies')].req = nread + 1
            /\ hpc' = "handler" => replies' = replies]_vars

\* ------------------------------------------------------------------------
\* Properties of the daemon's IPC commands (checked under SpecDaemon)
\* ------------------------------------------------------------------------
StatusKeys ==
    {"connected", "type_code", "type_name", "link_revision", "poll_interval"}
StatsKeys == {"last_poll", "crc_errors", "timeouts", "uptime_seconds"}

FieldTypes(k) ==
    CASE k = "connected" -> {"bool"}
      [] k \in {"type_code", "poll_interval", "crc_errors", "timeouts",
                "uptime_seconds"} -> {"int"}
      [] k \in {"type_name", "link_revision"} -> {"str"}
      [] k = "last_poll" -> {"str", "none"}
      [] OTHER -> {}

WellTyped(doc) ==
    /\ StatusKeys \subseteq DOMAIN doc
    /\ DOMAIN doc \subseteq StatusKeys \cup StatsKeys
    /\ \A k \in DOMAIN doc : doc[k].t \in FieldTypes(k)

\* A handler call of this step produced a result.
Called(cmds) ==
    result = {} /\ result' # {} /\ One(result').cmd \in cmds

\* The port is not connected: no driver, or a driver that is not open.
PortClosed ==
    driver = {} \/ ~One(driver).connected \/ ~One(driver).is_open

\* C15: in every daemon state (no driver yet, a driver whose open or
\* detection failed, connected with a poller, teardown in progress,
\* torn down) the status command raises nothing and returns a document
\* with connected, type_code, type_name, link_revision and poll_interval
\* of their types, plus the poller's four statistics, of their types,
\* exactly when a poller exists.
C15_StatusWellTyped ==
    [][Called({"status"}) =>
         /\ WellTyped(One(result').doc)
         /\ (poller # {} <=> StatsKeys \subseteq DOMAIN One(result').doc)]_vars

\* status was answered while a teardown waited for the poller task.
C15_Witness ==
    /\ dpc = "teardown"
    /\ result # {}
    /\ One(result).cmd = "status"
    /\ WellTyped(One(result).doc)

\* C16: after a successful connect that detected family F (the poller
\* task runs on an open driver), status reports connected = true,
\* type_code = F's model code and type_name = F's display name, for each of
\* the eight families.
C16_StatusReportsFamily ==
    [][(/\ Called({"status"})
        /\ dpc = "idle" /\ poller_task = "running"
        /\ ~PortClosed) =>
         LET doc == One(result').doc
             F   == One(One(driver).station_model)
         IN  /\ doc.connected = JBool(TRUE)
             /\ doc.type_code = JInt(F)
             /\ doc.type_name = JStr(STATION_NAMES(F))]_vars

\* C17: while the port is not connected, status reports connected = false
\* and each device command fails with the not-connected error, nothing
\* having been sent on the wire.
C17_NotConnectedFailsFast ==
    [][(PortClosed /\ Called({"status"} \cup DeviceCommands)) =>
         LET r == One(result')
         IN  IF r.cmd = "status"
             THEN r.doc.connected = JBool(FALSE)
             ELSE r.error = "Not connected" /\ wire' = wire]_vars

\* A device command was refused on a driver whose port is not open, after
\* an earlier connection had put commands on the wire.
C17_Witness ==
    /\ driver # {}
    /\ PortClosed
    /\ wire > 0
    /\ result # {}
    /\ One(result).cmd \in DeviceCommands
    /\ One(result).error = "Not connected"

\* C40: whenever the status command, asked while no connect is under way,
\* reports connected = true, the station family has been detected and a
\* poller task is running; in particular a connect attempt that failed
\* after the port was opened (detection or calibration raised) leaves
\* status reporting connected = false.
C40_ConnectedMeansDetectedAndPolling ==
    [][\A r \in result' \ result :
          (dpc = "idle" /\ r.cmd = "status"
           /\ r.doc.connected = JBool(TRUE)) =>
              /\ driver # {}
              /\ One(driver).station_model # {}
              /\ poller_task = "running"]_vars

\* ------------------------------------------------------------------------
\* Properties of the IPC client (checked under SpecClient)
\* ------------------------------------------------------------------------
\* Requests whose send_command timed out or failed.
Expired == {r.call : r \in {x \in raised : x.exc # "CancelledError"}}

\* C18: when a send_command times out or fails while writing or reading,
\* the caller gets the error and the shared connection is closed; a call
\* that finds no connection opens one never used before; and no reply to
\* a request that timed out or failed is ever returned by a later call.
C18_ExpiredCallForcesReconnect ==
    [][/\ \A r \in raised' \ raised :
            r.exc # "CancelledError" => cl'.writer = 0
       /\ (cl.pc = "wait" /\ cl'.pc = "idle" /\ returned' = returned) =>
            \E r \in raised' \ raised : r.call = cl.req
       /\ (cl.writer = 0 /\ cl'.writer # 0) => cl'.writer > cl.nconns
       /\ \A r \in returned' : r.reply_to \notin Expired']_vars

\* The first call timed out, the daemon's late reply to it sits unread on
\* the closed connection, and the second call got its own reply on a new
\* connection.
C18_Witness ==
    /\ [call |-> 1, exc |-> "TimeoutError"] \in raised
    /\ chan[1].pipe = <<1>>
    /\ [call |-> 2, reply_to |-> 2] \in returned
    /\ cl.nconns = 2

\* C38: every reply send_command returns is the server's reply to the
\* request written by that same call, also after calls that were cancelled
\* while they waited for their reply.
C38_ReplyBelongsToCall ==
    \A r \in returned : r.reply_to = r.call

\* ------------------------------------------------------------------------
\* Properties of the archive sync (checked under SpecArchive and SpecWalk)
\* ------------------------------------------------------------------------
\* C19: (archive_address, record_time) is a key of archive_records, and
\* syncing again over the same station memory inserts nothing: the memory
\* does not change here, so the store never holds two rows for one
\* archive address.
C19_ResyncInsertsNothing ==
    /\ \A r1, r2 \in store :
          (/\ r1.archive_address = r2.archive_address
           /\ r1.record_time = r2.record_time) => r1 = r2
    /\ \A a \in ArchiveAddrSet :
          Cardinality({r \in store : r.archive_address = a}) <= 1

\* C20: for pointers (old, new) in [0, SRAM_MAX_ADDR) and record size S the
\* address list has length ((new - old) mod SRAM_MAX_ADDR) / S, and it is
\* empty exactly when old = new.
C20_WalkLength ==
    walk.pc = "done" =>
        /\ Len(walk.addresses) =
              ((walk.new_ptr - walk.old_ptr) % SRAM_MAX_ADDR)
                  \div walk.record_size
        /\ (Len(walk.addresses) = 0 <=> walk.old_ptr = walk.new_ptr)

\* The slot after addr in a walk that advances by S and wraps at
\* SRAM_MAX_ADDR: addr + S while that lies inside the ring, 0 otherwise.
NextSlot(addr, S) == IF addr + S < SRAM_MAX_ADDR THEN addr + S ELSE 0

C30_TimeoutsCountNullPolls ==
    [][/\ timeouts' # timeouts =>
             /\ ppc = "poll" /\ drv["poller"].pc = "ret"
             /\ drv["poller"].reading = {}
             /\ timeouts' = timeouts + 1
       /\ (ppc = "poll" /\ ppc' = "sleep") => timeouts' = timeouts + 1]_vars

\* ------------------------------------------------------------------------
\* Properties of the traced serial line (checked under SpecWire)
\* ------------------------------------------------------------------------
Sent(c) == {i \in 1..Len(wirelog) :
              wirelog[i].ev = "send" /\ wirelog[i].cmd = c}

\* C22: in a write_station_time, clear_rain_daily or clear_rain_yearly
\* call every WWR is sent after the call's STOP and before its START, and
\* once the call has ended every STOP it sent has a START sent after it,
\* also when a WWR was not acknowledged or raised.
C22_WritesBracketed ==
    LET d == drv[WireThread] IN
    d.op \in Bracketed =>
        /\ \A i \in Sent("WWR") :
              /\ \E j \in Sent("STOP") : j < i
              /\ \A k \in Sent("START") : i < k
        /\ d.pc = "ret" =>
              \A j \in Sent("STOP") : \E k \in Sent("START") : j < k

\* C28: a WRD or RRD read that succeeded has taken both trailing CRC bytes
\* of its response off the line, whether or not they validate: no byte of
\* the response is left unread for the next command.
C28_ReadConsumesCrc == unread = 0

\* C29: in every retry loop (LOOP, WRD, WWR, RRD, SRD) a command that is
\* sent again after a failed attempt is sent right after a flush of the
\* input buffer.
C29_FlushBeforeRetry ==
    \A i \in 1..Len(wirelog) :
        (wirelog[i].ev = "send" /\ wirelog[i].cmd \in RetryCmds
                                /\ wirelog[i].attempt > 0) =>
            (i > 1 /\ wirelog[i - 1].ev = "flush")

C24_NoTipFifteenMinutesZero ==
    \A i \in 1..Len(rain.samples) :
        LET sample == rain.samples[i] IN
        (/\ ~sample.reported /\ ~sample.tipped
         /\ \E since \in sample.since : since > 900) =>
            sample.rate = 0 /\ sample.rain_rate = 0

\* A rate above zero was dropped to 0 by a reading more than 15 minutes
\* after the last tip.
C24_Witness ==
    \E i \in 1..Len(rain.samples) :
        LET sample == rain.samples[i] IN
        /\ ~sample.reported /\ ~sample.tipped /\ sample.before > 0
        /\ \E since \in sample.since : since > 900
        /\ sample.rain_rate = 0

\* C25: a fresh poller (no state restored) whose first four readings are
\* 30 s apart, each one click above the one before, derives a rain rate
\* of 1.20 in/hr (12 tenths) for each of the four.
C25_FourTipsThirtySeconds ==
    (/\ rain.fresh /\ Len(rain.samples) = 4
     /\ \A i \in 1..4 : ~rain.samples[i].reported
     /\ \A i \in 2..4 :
           /\ rain.samples[i].at = rain.samples[i - 1].at + 30
           /\ rain.samples[i].rain_total =
                  rain.samples[i - 1].rain_total + 1) =>
        \A i \in 1..4 : rain.samples[i].rate = 1200
                        /\ rain.samples[i].rain_rate = 12

\* The readings processed without a new tip by a station that reports no
\* rain_rate (a rain_total below the previous one counts as no tip).
NoTipSamples ==
    {i \in 1..Len(rain.samples) :
        ~rain.samples[i].reported /\ ~rain.samples[i].tipped}

\* C32 as stated: on every reading with no new tip the new rate is
\* min(previous rate, 0.01 in / time since the last tip).
C32_DecayIsMin ==
    \A i \in NoTipSamples :
        \A since \in rain.samples[i].since :
            since > 0 =>
                rain.samples[i].rate =
                    Min2(rain.samples[i].before, TipRate(1, since))

\* C32, amended: between two tips the derived rate never increases; on a
\* reading with no new tip (a counter reset included) the new rate is
\* min(previous rate, 0.01 in / time since the last tip) up to 15 minutes
\* after the last tip and 0 beyond, and the previous rate when no tip was
\* seen yet.
C32_DecayIsMinUntilTimeout ==
    \A i \in NoTipSamples :
        LET sample == rain.samples[i] IN
        /\ sample.rate <= sample.before
        /\ sample.since = {} => sample.rate = sample.before
        /\ \A since \in sample.since :
             /\ since > 900 => sample.rate = 0
             /\ (since > 0 /\ since <= 900) =>
                    sample.rate = Min2(sample.before, TipRate(1, since))

\* A counter reset 900 s after the last tip lowered a rate of 1.2 in/hr.
C32_Witness ==
    \E i \in NoTipSamples :
        LET sample == rain.samples[i] IN
        /\ i > 1 /\ sample.rain_total < rain.samples[i - 1].rain_total
        /\ sample.since = {900}
        /\ sample.before = 1200 /\ sample.rate < sample.before

\* ------------------------------------------------------------------------
\* Properties of the CRC (checked under SpecCrc)
\* ------------------------------------------------------------------------
\* C26: a byte sequence followed by its CRC, high byte first, validates,
\* and the same bytes with any one bit inverted, in the sequence or in the
\* two CRC bytes, do not.
C26_CrcDetectsSingleBit ==
    crc.pc = "done" => (crc.valid /\ ~crc.flipped)

\* A sequence of the greatest length was checked with a bit of its second
\* CRC byte inverted.
C26_Witness ==
    /\ crc.pc = "done" /\ Len(crc.B) = MaxBytes
    /\ crc.bit >= 8 * (MaxBytes + 1)
    /\ crc.valid /\ ~crc.flipped

\* ------------------------------------------------------------------------
\* Properties of the LOOP packet parser (checked under SpecPkt)
\* ------------------------------------------------------------------------
\* C27: a LOOP packet with a valid CRC in which one field holds its
\* documented sentinel is parsed into a reading whose field of that name
\* is null and whose every other field equals the value encoded for it.
C27_SentinelNullsOnlyItsField ==
    parsed.pc = "done" =>
        /\ parsed.out # {}
        /\ \A reading \in parsed.out :
             \A f \in DOMAIN Layout(parsed.family) :
                 reading[f] = IF f = parsed.target THEN {}
                              ELSE {BaseValue(Layout(parsed.family)[f],
                                              parsed.seed)}

\* A Health packet with the UV sentinel and a negative temperature was
\* parsed.
C27_Witness ==
    /\ parsed.pc = "done" /\ parsed.family = "health"
    /\ parsed.target = "uv_index" /\ parsed.sentinel = INVALID_UV
    /\ \E reading \in parsed.out :
          reading.uv_index = {} /\ reading.outside_temp = {-50}

\* ------------------------------------------------------------------------
\* Properties of the daemon's lifecycle (checked under SpecLife)
\* ------------------------------------------------------------------------
\* The steps of a shutdown, in the order the supervisor is to take them.
ShutdownOrder ==
    <<"save_rain_state", "poller.stop", "poller_task.cancel",
      "driver.close", "ipc_server.stop">>

Position(e) == CHOOSE i \in DOMAIN ShutdownOrder : ShutdownOrder[i] = e

\* C31: on a shutdown signal the supervisor checkpoints the rain state,
\* stops the poller, cancels the background tasks (poller task and archive
\* sync), closes the port and stops the IPC server, in this order; when the
\* port is closed no background task is left that has neither ended nor
\* been cancelled, and the IPC server is stopped after the port is closed.
C31_ShutdownInOrder ==
    [][(life.sd # "stopped" /\ life'.sd = "stopped") =>
          /\ \A i, j \in DOMAIN life'.log :
                i < j => Position(life'.log[i]) < Position(life'.log[j])
          /\ \A d \in DOMAIN life'.drivers :
                d = life.driver => ~life'.drivers[d].is_open
          /\ (life.driver # 0 /\ life.drivers[life.driver].is_open) =>
                LiveTasks(life) = {}]_vars

PollerTasks(L) == {t \in DOMAIN L.tasks : L.tasks[t].kind = "poller"}

\* C34: whatever the interleaving of connect and reconnect commands from
\* different connections, once they have all returned the daemon has at
\* most one open LinkDriver and at most one running poller task, and every
\* poller task it started is the current one or has been cancelled.
C34_OneDriverOnePoller ==
    (life.sd = "run" /\ \A h \in Clients : life.h[h].pc = "idle") =>
        /\ Cardinality({d \in DOMAIN life.drivers :
                           life.drivers[d].is_open}) <= 1
        /\ Cardinality(PollerTasks(life) \cap LiveTasks(life)) <= 1
        /\ \A t \in PollerTasks(life) :
              t = life.poller_task \/ life.tasks[t].pc = "cancelled"

\* A worker thread of the poller task or of the archive sync task is inside
\* an exchange on driver d, holding its I/O lock.
TaskMidExchange(L, d) ==
    \E th \in L.threads : th.driver = d /\ th.held /\ th.t # 0

\* C35: a teardown (shutdown, connect or reconnect) closes the serial port
\* of the daemon's driver only when no worker thread of the poller or of
\* the archive syncer is inside an exchange on it, holding its I/O lock.
C35_CloseAfterExchange ==
    [][\A d \in DOMAIN life.drivers :
          (d = life.driver /\ life.drivers[d].is_open
           /\ ~life'.drivers[d].is_open) => ~TaskMidExchange(life, d)]_vars

\* C36: probe and auto_detect never open a temporary driver on a port the
\* daemon's active driver has open, in any daemon state and for every
\* detected family.
C36_NoSecondDriverOnPort ==
    [][\A h \in Clients :
          (life'.h[h].tmp # 0 /\ life'.h[h].tmp # life.h[h].tmp) =>
              ~(/\ life.driver # 0
                /\ life.drivers[life.driver].is_open
                /\ life.drivers[life.driver].port =
                       life'.drivers[life'.h[h].tmp].port)]_vars

\* ------------------------------------------------------------------------
\* Properties of the calibration (checked under SpecCal)
\* ------------------------------------------------------------------------
\* C33: the driver's rain calibration (clicks per inch) is at least 1 in
\* every reachable state: after read_calibration when the station returns
\* 0, and after any write_config / write_calibration sequence.
C33_RainCalAtLeastOne ==
    cal.rain_cal >= 1

\* C37: no flush of the serial buffers is issued by a driver operation
\* while another thread's exchange is in flight; the flush at the start of
\* read_calibration, also after a partially failed write_calibration,
\* happens only when the poller's thread is not inside an exchange.
C37_NoFlushDuringExchange ==
    [][(cal.pc = "flush" /\ cal'.pc # "flush") =>
          cal.poll # "exchange"]_vars

====
